---- MODULE Spec2Model ----
(***************************************************************************)
(* Sentinel: the command validator (src/src/utils/validator.ts), the      *)
(* shell_exec tool handlers that call it (src/src/tools/shell.ts and the   *)
(* token-less version in src/src/tools/gpu.ts), the pattern screen and the *)
(* log tools pm2_grep and pm2_metrics, pm2_logs, pm2_start and the PM2     *)
(* connection (src/src/tools/pm2.ts), loadConfig (src/unnamed/part_001),   *)
(* and the SSE sessions and the shutdown of index.ts                       *)
(* (src/unnamed/part_002).                                                 *)
(*                                                                         *)
(* Specifications: SpecPath (validatePathSandbox calls), Spec (shell_exec  *)
(* calls), SpecRegex (validateRegexSafety calls), SpecLog (pm2_grep and    *)
(* pm2_metrics calls), SpecConfig (loadConfig calls), SpecValidate         *)
(* (validateShellCommand calls), SpecGrep (grepLogs calls), SpecExec       *)
(* (every handler that runs a command line in a shell), SpecConn           *)
(* (connectPm2 of concurrent handlers), SpecSse (SSE sessions).            *)
(*                                                                         *)
(* A JavaScript string is a sequence of one-character strings, so that     *)
(* trimming, splitting, prefix tests and path normalisation are computed   *)
(* character by character, as the code (on POSIX node:path) computes them. *)
(***************************************************************************)
EXTENDS Naturals, Integers, Sequences, FiniteSets, TLC

VARIABLES
    allowedPaths,   \* config.allowedPaths, as returned by getAllowedPaths()
    processCwd,     \* process.cwd() of the server process
    configToken,    \* config.token
    targetPath,     \* validatePathSandbox call: argument targetPath
    basePath,       \* validatePathSandbox call: argument basePath (or Undefined)
    pathResult,     \* validatePathSandbox call: the value returned (or NoResult)
    request,        \* shell_exec: the tool call being handled
    pc,             \* shell_exec: position of the handler
    validation,     \* shell_exec: the value validateShellCommand returned
    response,       \* shell_exec: the response returned to the caller
    executed,       \* shell_exec: the last (command, options) given to execAsync
    pattern,        \* validateRegexSafety call: argument pattern
    regexResult,    \* validateRegexSafety call: the value returned (or NoResult)
    pm2Connected,   \* pm2.ts: module variable pm2Connected
    pm2Daemon,      \* PM2: whether pm2.connect succeeds
    pm2Process,     \* PM2: whether pm2.describe finds the named process
    outLog,         \* the file at pm_out_log_path of the process
    errLog,         \* the file at pm_err_log_path of the process
    toolCall,       \* pm2_grep / pm2_metrics: the tool call being handled
    toolResponse,   \* pm2_grep / pm2_metrics: the response returned
    toolTrace,      \* pm2_grep / pm2_metrics: what the handler computed and read
    env,            \* process.env: SENTINEL_TOKEN, SENTINEL_ALLOWED_PATHS, SENTINEL_PORT
    config,         \* auth.ts: module variable config (Null or the AuthConfig)
    loadOutcome,    \* loadConfig call: what the last call read, returned or threw
    cmdLine,        \* validateShellCommand call: argument command
    cmdCwd,         \* validateShellCommand call: argument cwd (or Undefined)
    cmdPc,          \* validateShellCommand call: which evaluations have been made
    cmdVerdict,     \* validateShellCommand call: the value returned
    cmdVerdictAgain, \* the value returned for the same arguments in another process state
    connectPc,      \* connectPm2: position of the call made by each running tool handler
    pm2ConnectCalls, \* pm2.connect invocations since process start or the last disconnectPm2
    transports,     \* index.ts: the keys of the Map transports (session ids)
    sseState,       \* GET /sse: per session id, the stage of its handler and whether res is open
    postResult,     \* POST /message: the last request and what the handler did with it
    shuttingDown    \* index.ts: gracefulShutdown has run (server.close() was called)

vars == <<allowedPaths, processCwd, configToken, targetPath, basePath, pathResult,
          request, pc, validation, response, executed, pattern, regexResult,
          pm2Connected, pm2Daemon, pm2Process, outLog, errLog,
          toolCall, toolResponse, toolTrace, env, config, loadOutcome,
          cmdLine, cmdCwd, cmdPc, cmdVerdict, cmdVerdictAgain,
          connectPc, pm2ConnectCalls, transports, sseState, postResult, shuttingDown>>

configVars == <<allowedPaths, processCwd, configToken>>
pathVars == <<targetPath, basePath, pathResult>>
shellVars == <<request, pc, validation, response, executed>>
regexVars == <<pattern, regexResult>>
pm2Vars == <<pm2Connected, pm2Daemon, pm2Process, outLog, errLog>>
toolVars == <<toolCall, toolResponse, toolTrace>>
authVars == <<env, config, loadOutcome>>
cmdVars == <<cmdLine, cmdCwd, cmdPc, cmdVerdict, cmdVerdictAgain>>
connVars == <<connectPc, pm2ConnectCalls>>
sseVars == <<transports, sseState, postResult>>
serverVars == <<connVars, sseVars, shuttingDown>>

-----------------------------------------------------------------------------
(* JavaScript values *)

\* `undefined` for an optional string: a sequence no string of characters equals
Undefined == <<"undefined">>

\* a string is falsy when it is undefined or empty
Truthy(s) == s # Undefined /\ s # <<>>

\* the characters /\s/ matches that the inputs use
WhiteSpace == {" ", "\t", "\n"}

\* String.prototype.startsWith
startsWith(s, prefix) ==
    /\ Len(prefix) <= Len(s)
    /\ SubSeq(s, 1, Len(prefix)) = prefix

\* String.prototype.includes / RegExp.test of a literal pattern
includes(s, sub) ==
    \E i \in 1..(Len(s) + 1) :
        /\ i + Len(sub) - 1 <= Len(s)
        /\ SubSeq(s, i, i + Len(sub) - 1) = sub

\* String.prototype.trim
RECURSIVE trimStart(_)
trimStart(s) ==
    IF s # <<>> /\ Head(s) \in WhiteSpace THEN trimStart(Tail(s)) ELSE s

RECURSIVE trimEnd(_)
trimEnd(s) ==
    IF s # <<>> /\ s[Len(s)] \in WhiteSpace
    THEN trimEnd(SubSeq(s, 1, Len(s) - 1))
    ELSE s

trim(s) == trimEnd(trimStart(s))

\* String.prototype.split on a set of separator characters, one separator at a
\* time (so that adjacent separators give an empty piece)
RECURSIVE splitOn(_, _, _, _)
splitOn(s, seps, cur, acc) ==
    IF s = <<>> THEN Append(acc, cur)
    ELSE IF Head(s) \in seps
         THEN splitOn(Tail(s), seps, <<>>, Append(acc, cur))
         ELSE splitOn(Tail(s), seps, Append(cur, Head(s)), acc)

\* String.prototype.split(/\s+/): a run of whitespace is one separator
RECURSIVE splitWs(_, _, _)
splitWs(s, cur, acc) ==
    IF s = <<>> THEN Append(acc, cur)
    ELSE IF Head(s) \in WhiteSpace
         THEN splitWs(trimStart(s), <<>>, Append(acc, cur))
         ELSE splitWs(Tail(s), Append(cur, Head(s)), acc)

split(s) == splitWs(s, <<>>, <<>>)

\* Array.prototype.join
RECURSIVE join(_, _)
join(parts, sep) ==
    IF parts = <<>> THEN <<>>
    ELSE IF Len(parts) = 1 THEN parts[1]
    ELSE parts[1] \o sep \o join(Tail(parts), sep)

-----------------------------------------------------------------------------
(* node:path (POSIX) *)

sep == <<"/">>

isAbsolute(p) == p # <<>> /\ p[1] = "/"

\* normalizeString: drop empty and "." segments, let ".." remove the segment
\* before it; above the root ".." is dropped unless allowAboveRoot
RECURSIVE normalizeSegments(_, _, _)
normalizeSegments(segs, res, allowAboveRoot) ==
    IF segs = <<>> THEN res
    ELSE LET s == Head(segs) IN
         IF s = <<>> \/ s = <<".">>
         THEN normalizeSegments(Tail(segs), res, allowAboveRoot)
         ELSE IF s = <<".", ".">>
         THEN IF res # <<>> /\ res[Len(res)] # <<".", ".">>
              THEN normalizeSegments(Tail(segs), SubSeq(res, 1, Len(res) - 1), allowAboveRoot)
              ELSE IF allowAboveRoot
                   THEN normalizeSegments(Tail(segs), Append(res, s), allowAboveRoot)
                   ELSE normalizeSegments(Tail(segs), res, allowAboveRoot)
         ELSE normalizeSegments(Tail(segs), Append(res, s), allowAboveRoot)

normalizeString(p, allowAboveRoot) ==
    join(normalizeSegments(splitOn(p, {"/"}, <<>>, <<>>), <<>>, allowAboveRoot), sep)

\* path.normalize
normalize(p) ==
    IF p = <<>> THEN <<".">>
    ELSE LET abs == isAbsolute(p)
             trailingSeparator == p[Len(p)] = "/"
             n == normalizeString(p, ~abs)
         IN  IF n = <<>>
             THEN IF abs THEN sep
                  ELSE IF trailingSeparator THEN <<".", "/">> ELSE <<".">>
             ELSE LET m == IF trailingSeparator THEN n \o sep ELSE n
                  IN  IF abs THEN sep \o m ELSE m

\* path.resolve: from the last argument to the first, then process.cwd(),
\* until an absolute path is met; empty arguments are skipped
RECURSIVE resolveLoop(_, _, _, _)
resolveLoop(args, i, resolvedPath, cwdNow) ==
    LET p == IF i >= 1 THEN args[i] ELSE cwdNow IN
    IF p = <<>> /\ i >= 1 THEN resolveLoop(args, i - 1, resolvedPath, cwdNow)
    ELSE LET joined == p \o sep \o resolvedPath IN
         IF isAbsolute(p) \/ i < 1 THEN joined
         ELSE resolveLoop(args, i - 1, joined, cwdNow)

resolve(args, cwdNow) ==
    LET resolvedPath == resolveLoop(args, Len(args), <<>>, cwdNow)
    IN  sep \o normalizeString(resolvedPath, FALSE)

\* path.basename: the last portion of the path, trailing separators ignored
RECURSIVE stripTrailingSeps(_)
stripTrailingSeps(p) ==
    IF p # <<>> /\ p[Len(p)] = "/"
    THEN stripTrailingSeps(SubSeq(p, 1, Len(p) - 1))
    ELSE p

basename(p) ==
    LET segs == splitOn(stripTrailingSeps(p), {"/"}, <<>>, <<>>)
    IN  segs[Len(segs)]

-----------------------------------------------------------------------------
(* src/src/utils/validator.ts *)

ls == <<"l", "s">>
pwd == <<"p", "w", "d">>
tree == <<"t", "r", "e", "e">>
cat == <<"c", "a", "t">>
head == <<"h", "e", "a", "d">>
tail == <<"t", "a", "i", "l">>
df == <<"d", "f">>
free == <<"f", "r", "e", "e">>
nvidiaSmi == <<"n", "v", "i", "d", "i", "a", "-", "s", "m", "i">>
ps == <<"p", "s">>

ALLOWED_COMMANDS == {ls, pwd, tree, cat, head, tail, df, free, nvidiaSmi, ps}

\* ValidationResult
Valid == [valid |-> TRUE]
Denied(kind, detail) == [valid |-> FALSE, error |-> [kind |-> kind, detail |-> detail]]

\* the backquote character (U+0060), which a TLA+ string cannot hold
Backquote == "BACKQUOTE"

\* the list without its last pattern
DANGEROUS_PATTERNS_NoBrace ==
    << <<"|">>, <<">">>, <<"<">>, <<"&", "&">>, <<"|", "|">>, <<";">>,
       <<"$", "(">>, <<Backquote>> >>

\* the literal each regular expression of the list matches, in the order of the list
DANGEROUS_PATTERNS ==
    << <<"|">>, <<">">>, <<"<">>, <<"&", "&">>, <<"|", "|">>, <<";">>,
       <<"$", "(">>, <<Backquote>>, <<"$", "{">> >>

\* a whitelist test on the beginning of the name instead of the whole name
validateCommandPrefix(command) ==
    LET trimmed == trim(command) IN
    IF trimmed = <<>> THEN Denied("Empty command", <<>>)
    ELSE LET parts == split(trimmed)
             cmd == parts[1]
             baseName == basename(cmd)
         IN  IF ~\E a \in {ls, pwd, tree, cat, head, tail, df, free, nvidiaSmi, ps} :
                    startsWith(baseName, a)
             THEN Denied("not in whitelist", baseName)
             ELSE Valid

validateCommand(command) ==
    LET trimmed == trim(command) IN
    IF trimmed = <<>> THEN Denied("Empty command", <<>>)
    ELSE LET parts == split(trimmed)
             cmd == parts[1]
             baseName == basename(cmd)
         IN  IF baseName \notin ALLOWED_COMMANDS
             THEN Denied("not in whitelist", baseName)
             ELSE Valid

RECURSIVE firstDangerous(_, _)
firstDangerous(input, i) ==
    IF i > Len(DANGEROUS_PATTERNS) THEN 0
    ELSE IF includes(input, DANGEROUS_PATTERNS[i]) THEN i
    ELSE firstDangerous(input, i + 1)

detectDangerousPatterns(input) ==
    LET i == firstDangerous(input, 1) IN
    IF i > 0 THEN Denied("Dangerous pattern detected", DANGEROUS_PATTERNS[i])
    ELSE Valid

\* a prefix test that forgets the separator after the root
inAllowedTextPrefix(normalizedPath, normalizedAllowed) ==
    startsWith(normalizedPath, normalizedAllowed)

\* the test of one allowed root inside the some() of validatePathSandbox
inAllowed(normalizedPath, normalizedAllowed) ==
    \/ normalizedPath = normalizedAllowed
    \/ startsWith(normalizedPath, normalizedAllowed \o sep)

\* a containment test on the path as written, ".." segments left in place
validatePathSandboxAsWritten(target, allowed, base) ==
    LET joinedPath ==
            IF isAbsolute(target) THEN target
            ELSE (IF Truthy(base) THEN base ELSE processCwd) \o sep \o target
        isAllowed ==
            \E k \in 1..Len(allowed) :
                inAllowed(joinedPath, normalize(resolve(<<allowed[k]>>, processCwd)))
    IN  IF ~isAllowed THEN Denied("not within allowed paths", joinedPath)
        ELSE Valid

validatePathSandbox(target, allowed, base) ==
    LET resolvedPath ==
            IF isAbsolute(target)
            THEN resolve(<<target>>, processCwd)
            ELSE resolve(<<IF Truthy(base) THEN base ELSE processCwd, target>>, processCwd)
        normalizedPath == normalize(resolvedPath)
        isAllowed ==
            \E k \in 1..Len(allowed) :
                inAllowed(normalizedPath, normalize(resolve(<<allowed[k]>>, processCwd)))
    IN  IF ~isAllowed THEN Denied("not within allowed paths", normalizedPath)
        ELSE Valid

RECURSIVE extractPathsFromArgs(_)
extractPathsFromArgs(args) ==
    IF args = <<>> THEN <<>>
    ELSE LET arg == Head(args)
             rest == extractPathsFromArgs(Tail(args))
         IN  IF startsWith(arg, <<"-">>) THEN rest
             ELSE IF startsWith(arg, <<"/">>) \/ startsWith(arg, <<".">>) \/ includes(arg, <<"/">>)
                  THEN <<arg>> \o rest
                  ELSE rest

RECURSIVE firstPathDenial(_, _, _)
firstPathDenial(paths, allowed, cwd) ==
    IF paths = <<>> THEN Valid
    ELSE LET pathResultHere == validatePathSandbox(Head(paths), allowed, cwd) IN
         IF ~pathResultHere.valid THEN pathResultHere
         ELSE firstPathDenial(Tail(paths), allowed, cwd)

validateShellCommandNoBase(command, allowed, cwd) ==
    LET cmdResult == validateCommand(command) IN
    IF ~cmdResult.valid THEN cmdResult
    ELSE LET dangerResult == detectDangerousPatterns(command) IN
    IF ~dangerResult.valid THEN dangerResult
    ELSE LET cwdResult == IF Truthy(cwd)
                          THEN validatePathSandbox(cwd, allowed, Undefined)
                          ELSE Valid IN
    IF ~cwdResult.valid THEN cwdResult
    ELSE LET parts == split(trim(command))
             args == Tail(parts)
             paths == extractPathsFromArgs(args)
         IN  firstPathDenial(paths, allowed, Undefined)

validateShellCommandInjectionFirst(command, allowed, cwd) ==
    LET dangerResult == detectDangerousPatterns(command) IN
    IF ~dangerResult.valid THEN dangerResult
    ELSE LET cmdResult == validateCommand(command) IN
    IF ~cmdResult.valid THEN cmdResult
    ELSE LET cwdResult == IF Truthy(cwd)
                          THEN validatePathSandbox(cwd, allowed, Undefined)
                          ELSE Valid IN
    IF ~cwdResult.valid THEN cwdResult
    ELSE LET parts == split(trim(command))
             args == Tail(parts)
             paths == extractPathsFromArgs(args)
         IN  firstPathDenial(paths, allowed, cwd)

validateShellCommand(command, allowed, cwd) ==
    LET cmdResult == validateCommand(command) IN
    IF ~cmdResult.valid THEN cmdResult
    ELSE LET dangerResult == detectDangerousPatterns(command) IN
    IF ~dangerResult.valid THEN dangerResult
    ELSE LET cwdResult == IF Truthy(cwd)
                          THEN validatePathSandbox(cwd, allowed, Undefined)
                          ELSE Valid IN
    IF ~cwdResult.valid THEN cwdResult
    ELSE LET parts == split(trim(command))
             args == Tail(parts)
             paths == extractPathsFromArgs(args)
         IN  firstPathDenial(paths, allowed, cwd)

getAllowedCommands == ALLOWED_COMMANDS

-----------------------------------------------------------------------------
(* Inputs of the path check *)

MaxSegs == 3

PathSegments == { <<".">>, <<".", ".">>, <<"d">>, <<"o">>, <<"o", "2">> }

SegLists == UNION { [1..n -> PathSegments] : n \in 0..MaxSegs }

\* paths written with doubled or trailing separators
ExtraPaths ==
    { <<"/", "d", "/", "o", "/">>, <<"/", "/", "d", "/", "o">>,
      <<"/", "d", "/", "/", "o", "2">>, <<"o", "/">> }

PathInputs ==
    { pre \o join(segs, sep) : pre \in {<<>>, sep}, segs \in SegLists } \cup ExtraPaths

RootD == <<"/", "d">>
RootDO == <<"/", "d", "/", "o">>
RootDOSlash == <<"/", "d", "/", "o", "/">>
RootO2 == <<"/", "o", "2">>
RootFs == <<"/">>
RootRel == <<"o">>

\* allow-lists the configuration can hold after loadConfig
RootLists == { <<RootDO>>, <<RootFs>>, <<RootO2, RootDOSlash>>, <<RootRel>> }

BaseInputs == { Undefined, <<>>, RootDO, RootRel }

ProcessCwds == { RootD, RootO2 }

NoResult == [pending |-> TRUE]
NoRequest == [pending |-> TRUE]
NoExec == [pending |-> TRUE]

InitShellIdle ==
    /\ request = NoRequest
    /\ pc = "idle"
    /\ validation = NoResult
    /\ response = NoResult
    /\ executed = NoExec

InitPathIdle ==
    /\ targetPath = <<>>
    /\ basePath = Undefined
    /\ pathResult = NoResult

InitRegexIdle ==
    /\ pattern = <<>>
    /\ regexResult = NoResult

NoFile == [path |-> FALSE]

InitCmdIdle ==
    /\ cmdLine = <<>>
    /\ cmdCwd = Undefined
    /\ cmdPc = "start"
    /\ cmdVerdict = NoResult
    /\ cmdVerdictAgain = NoResult

\* tool handlers that run at the same time, pm2.connect invocations counted,
\* and SSE sessions ever created
MaxHandlers == 2
MaxConnectCalls == 3
MaxSessions == 2

Handlers == 1..MaxHandlers
SessionIds == 1..MaxSessions

NoSession == [stage |-> "unused", open |-> FALSE]

\* the server has started: no tool handler runs, no session exists
InitServerIdle ==
    /\ connectPc = [ h \in Handlers |-> "idle" ]
    /\ pm2ConnectCalls = 0
    /\ transports = {}
    /\ sseState = [ id \in SessionIds |-> NoSession ]
    /\ postResult = NoResult
    /\ shuttingDown = FALSE

\* the configuration the other specifications run with, already loaded
InitAuthLoaded ==
    /\ env = [ SENTINEL_TOKEN |-> <<"t", "k">>,
               SENTINEL_ALLOWED_PATHS |-> join(allowedPaths, <<",">>),
               SENTINEL_PORT |-> Undefined ]
    /\ config = [token |-> configToken, allowedPaths |-> allowedPaths, port |-> [value |-> 9001]]
    /\ loadOutcome = NoResult
    /\ InitCmdIdle

InitPm2Idle ==
    /\ pm2Connected = FALSE
    /\ pm2Daemon = TRUE
    /\ pm2Process = TRUE
    /\ outLog = NoFile
    /\ errLog = NoFile
    /\ toolCall = NoRequest
    /\ toolResponse = NoResult
    /\ toolTrace = NoResult

InitPath ==
    /\ allowedPaths \in RootLists
    /\ processCwd \in ProcessCwds
    /\ configToken = <<"t", "k">>
    /\ targetPath \in PathInputs
    /\ basePath \in BaseInputs
    /\ pathResult = NoResult
    /\ InitShellIdle
    /\ InitRegexIdle
    /\ InitPm2Idle
    /\ InitAuthLoaded
    /\ InitServerIdle

\* one call validatePathSandbox(targetPath, allowedPaths, basePath)
CallValidatePathSandbox ==
    /\ pathResult = NoResult
    /\ pathResult' = validatePathSandbox(targetPath, allowedPaths, basePath)
    /\ UNCHANGED <<allowedPaths, processCwd, configToken, targetPath, basePath>>
    /\ UNCHANGED <<shellVars, regexVars, pm2Vars, toolVars, authVars, cmdVars>>
    /\ UNCHANGED serverVars

NextPath == CallValidatePathSandbox

SpecPath == InitPath /\ [][NextPath]_vars

-----------------------------------------------------------------------------
(* Path confinement as the specification states it: a path is a list of    *)
(* directory names below the filesystem root, and it is inside a root when *)
(* the names of the root are the first names of the path.                  *)

\* the directory a relative path is taken from
Anchor(base) ==
    IF base = Undefined \/ base = <<>> THEN processCwd
    ELSE IF base[1] = "/" THEN base
    ELSE processCwd \o <<"/">> \o base

AbsoluteForm(p, base) ==
    IF p # <<>> /\ p[1] = "/" THEN p ELSE Anchor(base) \o <<"/">> \o p

\* names of an absolute path, read from its end: a ".." cancels the nearest
\* name before it, and is lost at the filesystem root
RECURSIVE CanonFromRight(_, _, _)
CanonFromRight(segs, skip, acc) ==
    IF segs = <<>> THEN acc
    ELSE LET s == segs[Len(segs)]
             rest == SubSeq(segs, 1, Len(segs) - 1)
         IN  IF s = <<>> \/ s = <<".">> THEN CanonFromRight(rest, skip, acc)
             ELSE IF s = <<".", ".">> THEN CanonFromRight(rest, skip + 1, acc)
             ELSE IF skip > 0 THEN CanonFromRight(rest, skip - 1, acc)
             ELSE CanonFromRight(rest, 0, <<s>> \o acc)

Canonical(p, base) ==
    CanonFromRight(splitOn(AbsoluteForm(p, base), {"/"}, <<>>, <<>>), 0, <<>>)

IsPrefixOf(a, b) ==
    /\ Len(a) <= Len(b)
    /\ \A i \in 1..Len(a) : a[i] = b[i]

\* p (relative to base) is the root r or lies below it
WithinRoot(p, base, r) == IsPrefixOf(Canonical(r, Undefined), Canonical(p, base))

WithinSomeRoot(p, base, roots) ==
    \E k \in 1..Len(roots) : WithinRoot(p, base, roots[k])

\* C1: validatePathSandbox denies every target whose canonical absolute form is
\* neither an allowed root nor below one; a sibling sharing a textual prefix
\* with a root (/d/o2 against /d/o) is denied.
C1_OutsideDenied ==
    (pathResult # NoResult /\ ~WithinSomeRoot(targetPath, basePath, allowedPaths))
        => ~pathResult.valid

C1_Witness ==
    /\ pathResult # NoResult
    /\ targetPath = <<"/", "d", "/", "o", "2">>
    /\ allowedPaths = <<RootDO>>
    /\ ~pathResult.valid

\* C2: validatePathSandbox permits every target that, once normalised, is an
\* allowed root or a strict subdirectory of one, for every root of the list,
\* the filesystem root "/" included.
C2_InsidePermitted ==
    (pathResult # NoResult /\ WithinSomeRoot(targetPath, basePath, allowedPaths))
        => pathResult.valid

-----------------------------------------------------------------------------
(* src/unnamed/part_001 (auth.ts) *)

\* the loop accumulates the XOR of the character codes: 0 iff all are equal
validateToken(providedToken) ==
    /\ Len(providedToken) = Len(configToken)
    /\ \A i \in 1..Len(configToken) : providedToken[i] = configToken[i]

createAuthError == [error |-> "Unauthorized", code |-> 401]

getAllowedPaths == allowedPaths

-----------------------------------------------------------------------------
(* src/src/tools/shell.ts and src/src/tools/gpu.ts: shell_exec *)

\* the options object handed to execAsync
execOptions(cwd) ==
    [cwd |-> IF Truthy(cwd) THEN cwd ELSE Undefined, timeout |-> 30000, maxBuffer |-> 1048576]

\* a handler that lost the early return after a failed validation
shellExecSyncNoReturn(token, command, cwd) ==
    IF ~validateToken(token)
    THEN [validation |-> NoResult,
          response |-> [isError |-> TRUE, code |-> 401, error |-> createAuthError],
          executed |-> NoExec,
          pc |-> "done"]
    ELSE [validation |-> validateShellCommand(command, getAllowedPaths, cwd),
          response |-> NoResult,
          executed |-> [command |-> command, options |-> execOptions(cwd)],
          pc |-> "exec"]

\* shell.ts, shellExecHandler up to its await: token check, validation, then
\* the call of execAsync
shellExecSync(token, command, cwd) ==
    IF ~validateToken(token)
    THEN [validation |-> NoResult,
          response |-> [isError |-> TRUE, code |-> 401, error |-> createAuthError],
          executed |-> NoExec,
          pc |-> "done"]
    ELSE LET v == validateShellCommand(command, getAllowedPaths, cwd) IN
         IF ~v.valid
         THEN [validation |-> v,
               response |-> [isError |-> TRUE, code |-> 400, error |-> v.error],
               executed |-> NoExec,
               pc |-> "done"]
         ELSE [validation |-> v,
               response |-> NoResult,
               executed |-> [command |-> command, options |-> execOptions(cwd)],
               pc |-> "exec"]

\* gpu.ts, the shellExecHandler that takes no token, up to its await
shellExecSyncNoToken(command, cwd) ==
    LET v == validateShellCommand(command, getAllowedPaths, cwd) IN
    IF ~v.valid
    THEN [validation |-> v,
          response |-> [isError |-> TRUE, error |-> v.error, allowed |-> getAllowedCommands],
          executed |-> NoExec,
          pc |-> "done"]
    ELSE [validation |-> v,
          response |-> NoResult,
          executed |-> [command |-> command, options |-> execOptions(cwd)],
          pc |-> "exec"]

-----------------------------------------------------------------------------
(* Inputs of shell_exec *)

MaxArgs == 2

top == <<"t", "o", "p">>
du == <<"d", "u">>
wc == <<"w", "c">>
rm == <<"r", "m">>
binLs == <<"/", "b", "/", "l", "s">>
lsof == <<"l", "s", "o", "f">>
binRm == <<"/", "b", "/", "r", "m">>
lsSlash == <<"l", "s", "/">>

bn1 == <<"-", "b", "n", "1">>
fileInRoot == <<"/", "d", "/", "o", "/", "f">>
escapeDotDot == <<"/", "d", "/", "o", "/", ".", ".", "/", ".", ".", "/", "e">>
bareName == <<"f">>
upSibling == <<".", ".", "/", "o", "2">>
dotFile == <<".", "/", "f">>
relEscape == <<"o", "/", ".", ".", "/", ".", ".", "/", "o", "2">>

space == <<" ">>

\* executable names that are combined with every argument list
CommandNames == { cat, top, rm }

\* executable names that are tried without arguments
LoneNames ==
    { ls, pwd, tree, head, tail, df, free, nvidiaSmi, ps, du, wc, lsof, binLs, binRm, lsSlash }

ArgWords == { bn1, fileInRoot, escapeDotDot, bareName, relEscape }

ArgLists == UNION { [1..n -> ArgWords] : n \in 0..MaxArgs }

PlainCommands ==
    { join(<<name>> \o args, space) : name \in CommandNames, args \in ArgLists }
        \cup LoneNames
        \cup { join(<<name, arg>>, space) :
                    name \in {ls, binLs, binRm, du}, arg \in {fileInRoot, upSibling, dotFile} }

\* the metacharacter patterns, and two single characters that are none
MetaWords ==
    { <<"|">>, <<">">>, <<"<">>, <<"&", "&">>, <<"|", "|">>, <<";">>,
      <<"$", "(">>, <<Backquote>>, <<"$", "{">>, <<"&">>, <<"$">> }

MetaBases == { ls, join(<<cat, fileInRoot>>, space) }

\* a pattern after the command, between two commands, and in front
MetaCommands ==
    UNION { { b \o m, b \o m \o space \o rm, m \o b, b \o space \o fileInRoot \o m } :
            b \in MetaBases, m \in MetaWords }

\* empty input, and other whitespace than single blanks
SpacedCommands ==
    { <<>>, space, <<"\t", "\n">>,
      space \o ls \o space,
      ls \o <<"\t">> \o fileInRoot,
      ls \o <<"\n">> \o rm \o space \o bareName,
      space \o space \o cat \o space \o space \o escapeDotDot \o <<"\n">> }

CommandInputs == PlainCommands \cup MetaCommands \cup SpacedCommands

CwdInputs == { Undefined, <<>>, RootDO, RootO2, RootRel }

TokenInputs == { <<"t", "k">>, <<"t", "x">> }

Init ==
    /\ allowedPaths \in RootLists
    /\ processCwd \in ProcessCwds
    /\ configToken = <<"t", "k">>
    /\ InitPathIdle
    /\ InitShellIdle
    /\ InitRegexIdle
    /\ InitPm2Idle
    /\ InitAuthLoaded
    /\ InitServerIdle

\* shell.ts: a shell_exec call arrives and runs up to the await of execAsync
shellExecHandler ==
    /\ pc = "idle"
    /\ \E token \in TokenInputs, command \in CommandInputs, cwd \in CwdInputs :
        LET r == shellExecSync(token, command, cwd) IN
        /\ request' = [handler |-> "shell.ts", token |-> token, command |-> command, cwd |-> cwd]
        /\ validation' = r.validation
        /\ response' = r.response
        /\ executed' = r.executed
        /\ pc' = r.pc
    /\ UNCHANGED <<allowedPaths, processCwd, configToken>>
    /\ UNCHANGED <<pathVars, regexVars, pm2Vars, toolVars, authVars, cmdVars>>
    /\ UNCHANGED serverVars

\* gpu.ts: the same for the handler without a token
shellExecHandlerNoToken ==
    /\ pc = "idle"
    /\ \E command \in CommandInputs, cwd \in CwdInputs :
        LET r == shellExecSyncNoToken(command, cwd) IN
        /\ request' = [handler |-> "gpu.ts", token |-> Undefined, command |-> command, cwd |-> cwd]
        /\ validation' = r.validation
        /\ response' = r.response
        /\ executed' = r.executed
        /\ pc' = r.pc
    /\ UNCHANGED <<allowedPaths, processCwd, configToken>>
    /\ UNCHANGED <<pathVars, regexVars, pm2Vars, toolVars, authVars, cmdVars>>
    /\ UNCHANGED serverVars

\* execAsync resolves: the handler returns the captured output
execResolves ==
    /\ pc = "exec"
    /\ response' = [isError |-> FALSE, success |-> TRUE]
    /\ pc' = "done"
    /\ UNCHANGED <<allowedPaths, processCwd, configToken, request, validation, executed>>
    /\ UNCHANGED <<pathVars, regexVars, pm2Vars, toolVars, authVars, cmdVars>>
    /\ UNCHANGED serverVars

\* execAsync rejects (exit code, timeout, output limit): the catch block
execRejects ==
    /\ pc = "exec"
    /\ response' = [isError |-> TRUE, success |-> FALSE]
    /\ pc' = "done"
    /\ UNCHANGED <<allowedPaths, processCwd, configToken, request, validation, executed>>
    /\ UNCHANGED <<pathVars, regexVars, pm2Vars, toolVars, authVars, cmdVars>>
    /\ UNCHANGED serverVars

\* the response has been sent; the next call may arrive
handlerReturns ==
    /\ pc = "done"
    /\ request' = NoRequest
    /\ pc' = "idle"
    /\ validation' = NoResult
    /\ response' = NoResult
    /\ executed' = NoExec
    /\ UNCHANGED <<allowedPaths, processCwd, configToken>>
    /\ UNCHANGED <<pathVars, regexVars, pm2Vars, toolVars, authVars, cmdVars>>
    /\ UNCHANGED serverVars

Next ==
    \/ shellExecHandler
    \/ shellExecHandlerNoToken
    \/ execResolves
    \/ execRejects
    \/ handlerReturns

Spec == Init /\ [][Next]_vars

-----------------------------------------------------------------------------
(* The command line as the specification reads it: words are the maximal   *)
(* runs of characters that are not whitespace.                             *)

\* the whitelist the README documents
DocumentedWhitelist ==
    { ls, pwd, tree, cat, head, tail, df, free, nvidiaSmi, ps, du, wc, top }

WordStarts(c) ==
    { i \in 1..Len(c) : c[i] \notin WhiteSpace /\ (i = 1 \/ c[i - 1] \in WhiteSpace) }

WordEnd(c, i) ==
    CHOOSE j \in i..Len(c) :
        /\ \A k \in i..j : c[k] \notin WhiteSpace
        /\ (j = Len(c) \/ c[j + 1] \in WhiteSpace)

WordAt(c, i) == SubSeq(c, i, WordEnd(c, i))

NoWords(c) == WordStarts(c) = {}

FirstStart(c) == CHOOSE i \in WordStarts(c) : \A j \in WordStarts(c) : i <= j

\* the words after the first one
ArgStarts(c) == WordStarts(c) \ {FirstStart(c)}

\* the last path segment of a word, trailing separators aside
LastSegment(w) ==
    LET named == { i \in 1..Len(w) : w[i] # "/" } IN
    IF named = {} THEN <<>>
    ELSE LET e == CHOOSE i \in named : \A j \in named : j <= i
             slashes == { i \in 1..e : w[i] = "/" }
             b == IF slashes = {} THEN 0
                  ELSE CHOOSE i \in slashes : \A j \in slashes : j <= i
         IN  SubSeq(w, b + 1, e)

Leaf(c) == LastSegment(WordAt(c, FirstStart(c)))

HasMeta(c) ==
    \E i \in 1..Len(c) :
        \/ c[i] \in { "|", ">", "<", ";", Backquote }
        \/ /\ i < Len(c)
           /\ <<c[i], c[i + 1]>> \in { <<"&", "&">>, <<"$", "(">>, <<"$", "{">> }

PathLike(w) ==
    /\ w[1] # "-"
    /\ (w[1] = "/" \/ w[1] = "." \/ \E i \in 1..Len(w) : w[i] = "/")

\* what validateShellCommand answers for the request being handled
Verdict == validateShellCommand(request.command, allowedPaths, request.cwd)

\* C3: a command string containing one of | > < && || ; $( ` ${ anywhere is
\* denied by detectDangerousPatterns, and by validateShellCommand even when its
\* first word is whitelisted and its paths are inside the sandbox.
C3_MetaDenied ==
    (pc # "idle" /\ HasMeta(request.command))
        => /\ ~detectDangerousPatterns(request.command).valid
           /\ ~Verdict.valid
           /\ executed = NoExec

C3_Witness ==
    /\ pc = "done"
    /\ request.command = ls \o space \o fileInRoot \o <<";">>
    /\ request.cwd = RootDO
    /\ allowedPaths = <<RootDO>>
    /\ validation # NoResult
    /\ ~validation.valid
    /\ validation.error.kind = "Dangerous pattern detected"

\* C4: a command line whose leaf executable name is not in the allowed set is
\* denied by validateCommand and by validateShellCommand whatever its
\* arguments, roots and cwd; one without any word is denied as empty.
C4_NotWhitelistedDenied ==
    pc # "idle" =>
        LET c == request.command IN
        IF NoWords(c)
        THEN /\ validateCommand(c) = Denied("Empty command", <<>>)
             /\ Verdict = Denied("Empty command", <<>>)
        ELSE Leaf(c) \notin ALLOWED_COMMANDS
                => /\ ~validateCommand(c).valid
                   /\ ~Verdict.valid

C4_Witness ==
    /\ pc = "done"
    /\ request.command = rm \o space \o fileInRoot
    /\ validation # NoResult
    /\ ~validation.valid
    /\ validation.error.kind = "not in whitelist"

\* C5: validateShellCommand permits every command line whose leaf name is in
\* the allowed set, that has no dangerous pattern, whose path-like arguments
\* all resolve inside an allowed root, and whose cwd is absent or inside one.
C5_CleanPermitted ==
    LET c == request.command IN
    ( /\ pc # "idle"
      /\ ~NoWords(c)
      /\ Leaf(c) \in ALLOWED_COMMANDS
      /\ ~HasMeta(c)
      /\ \A i \in ArgStarts(c) :
            PathLike(WordAt(c, i))
                => WithinSomeRoot(WordAt(c, i), request.cwd, allowedPaths)
      /\ (request.cwd = Undefined \/ WithinSomeRoot(request.cwd, Undefined, allowedPaths)) )
        => Verdict.valid

\* C6: top passes the whitelist check exactly when its argument list is the
\* single word -bn1.
C6_TopOnlyBn1 ==
    LET c == request.command IN
    (pc # "idle" /\ ~NoWords(c) /\ Leaf(c) = top)
        => ( validateCommand(c).valid
                <=> (\E i \in ArgStarts(c) : ArgStarts(c) = {i} /\ WordAt(c, i) = bn1) )

\* C7: the commands validateCommand accepts and getAllowedCommands returns are
\* exactly the documented whitelist: every documented command, with acceptable
\* arguments, passes the whitelist check.
C7_DocumentedWhitelist ==
    LET c == request.command IN
    ( /\ pc # "idle"
      /\ ~NoWords(c)
      /\ Leaf(c) \in DocumentedWhitelist
      /\ Leaf(c) = top => (\E i \in ArgStarts(c) : ArgStarts(c) = {i} /\ WordAt(c, i) = bn1) )
        => /\ validateCommand(c).valid
           /\ Leaf(c) \in getAllowedCommands

\* C8: a whitelisted command without metacharacters that has a path-like
\* argument whose canonical form is outside every allowed root is denied, with
\* the path-confinement denial, also when the argument begins with a root and
\* leaves it through ".." segments.
C8_EscapeDenied ==
    LET c == request.command IN
    ( /\ pc # "idle"
      /\ ~NoWords(c)
      /\ Leaf(c) \in ALLOWED_COMMANDS
      /\ ~HasMeta(c)
      /\ \E i \in ArgStarts(c) :
            /\ PathLike(WordAt(c, i))
            /\ ~WithinSomeRoot(WordAt(c, i), request.cwd, allowedPaths) )
        => /\ ~Verdict.valid
           /\ Verdict.error.kind = "not within allowed paths"
           /\ executed = NoExec

C8_Witness ==
    /\ pc = "done"
    /\ request.command = cat \o space \o escapeDotDot
    /\ request.cwd = RootDO
    /\ allowedPaths = <<RootDO>>
    /\ validation = Denied("not within allowed paths", <<"/", "e">>)

\* C9: shell_exec hands the command to execAsync only after validateShellCommand
\* permitted that same command and cwd (and, in shell.ts, only after the token
\* check succeeded); when validation denies, the handler answers with an error
\* and nothing is executed for that request.
C9_ExecOnlyAfterValidation ==
    /\ executed # NoExec
        => /\ pc \in {"exec", "done"}
           /\ executed.command = request.command
           /\ executed.options.cwd \in {request.cwd, Undefined}
           /\ Verdict.valid
           /\ validation = Verdict
           /\ request.handler = "shell.ts" => request.token = configToken
    /\ (pc # "idle" /\ ~Verdict.valid)
        => /\ executed = NoExec
           /\ pc = "done"
           /\ response.isError

C9_Witness ==
    /\ pc = "exec"
    /\ request.handler = "shell.ts"
    /\ request.token = configToken
    /\ validation = Valid
    /\ executed.command = request.command

\* C10: for every command shell_exec runs, the directory it runs in and every
\* non-option argument resolved against that directory lie within an allowed
\* root, also when no cwd is supplied and when the argument is a bare name.
C10_RunsInsideRoots ==
    executed # NoExec =>
        LET c == executed.command
            dir == IF executed.options.cwd # Undefined
                   THEN executed.options.cwd
                   ELSE processCwd
        IN  /\ WithinSomeRoot(dir, Undefined, allowedPaths)
            /\ \A i \in ArgStarts(c) :
                  WordAt(c, i)[1] # "-" => WithinSomeRoot(WordAt(c, i), dir, allowedPaths)


-----------------------------------------------------------------------------
(* src/src/tools/pm2.ts: validateRegexSafety.  The three dangerousPatterns *)
(* are fixed expressions, modelled by the set of strings each one matches  *)
(* somewhere (RegExp.prototype.test without flags).  new RegExp(pattern)   *)
(* is modelled by the early errors of the pattern grammar of a non-unicode *)
(* expression: unbalanced groups, an unterminated class, a trailing        *)
(* backslash, a quantifier with nothing to repeat, {n,m} out of order.     *)
(* Named groups, look-behind and class ranges are outside the model.       *)

maxPatternLength == 200

PatternTooLong == "pattern too long (max 200 characters)"
PatternDangerous == "pattern contains a potentially dangerous construct"
PatternInvalid == "invalid regular expression"

RegexDenied(message) == [valid |-> FALSE, error |-> message]

\* /\([^)]*X[^)]*\)[+*]/ for a character set X that does not hold ")"
groupWithThenRepeat(s, X) ==
    \E i \in 1..Len(s) :
        /\ s[i] = "("
        /\ \E j \in (i + 1)..(Len(s) - 1) :
            /\ s[j] = ")"
            /\ \A k \in (i + 1)..(j - 1) : s[k] # ")"
            /\ \E k \in (i + 1)..(j - 1) : s[k] \in X
            /\ s[j + 1] \in {"+", "*"}

\* /(\.\*){3,}/
threeDotStars(s) ==
    \E i \in 1..Len(s) :
        /\ i + 5 <= Len(s)
        /\ \A k \in 0..2 : s[i + 2 * k] = "." /\ s[i + 2 * k + 1] = "*"

\* danger.test(pattern) for the three elements of dangerousPatterns, in order
dangerousPatterns(s) ==
    << groupWithThenRepeat(s, {"+", "*"}),
       threeDotStars(s),
       groupWithThenRepeat(s, {"|"}) >>

Digits == {"0", "1", "2", "3", "4", "5", "6", "7", "8", "9"}

\* the first index at or after i that does not hold a decimal digit
RECURSIVE digitsEnd(_, _)
digitsEnd(s, i) ==
    IF i <= Len(s) /\ s[i] \in Digits THEN digitsEnd(s, i + 1) ELSE i

digitValue(c) == CHOOSE n \in 0..9 : ToString(n) = c

RECURSIVE decimalValue(_, _, _, _)
decimalValue(s, i, j, acc) ==
    IF i >= j THEN acc ELSE decimalValue(s, i + 1, j, 10 * acc + digitValue(s[i]))

\* s[i] = "{": the index of the "}" closing a quantifier {n}, {n,} or {n,m},
\* or 0 when the brace is an ordinary character
braceEnd(s, i) ==
    LET a == digitsEnd(s, i + 1) IN
    IF a = i + 1 \/ a > Len(s) THEN 0
    ELSE IF s[a] = "}" THEN a
    ELSE IF s[a] # "," THEN 0
    ELSE LET b == digitsEnd(s, a + 1) IN
         IF b <= Len(s) /\ s[b] = "}" THEN b ELSE 0

\* {n,m} with n > m is a syntax error
braceInOrder(s, i) ==
    LET a == digitsEnd(s, i + 1)
        b == digitsEnd(s, a + 1)
    IN  s[a] = "," /\ b > a + 1 => decimalValue(s, i + 1, a, 0) <= decimalValue(s, a + 1, b, 0)

\* i is the index after "[": the index of the closing "]", or 0
RECURSIVE classEnd(_, _)
classEnd(s, i) ==
    IF i > Len(s) THEN 0
    ELSE IF s[i] = "\\" THEN classEnd(s, i + 2)
    ELSE IF s[i] = "]" THEN i
    ELSE classEnd(s, i + 1)

\* a "?" after a quantifier makes it lazy
afterLazy(s, i) == IF i <= Len(s) /\ s[i] = "?" THEN i + 1 ELSE i

SyntaxChars == {"\\", "[", "(", ")", "|", "^", "$", "*", "+", "?", "{"}

\* the first index at or after i that holds a syntax character, or Len(s) + 1
literalsEnd(s, i) ==
    CHOOSE k \in i..(Len(s) + 1) :
        /\ k = Len(s) + 1 \/ s[k] \in SyntaxChars
        /\ \A m \in i..(k - 1) : s[m] \notin SyntaxChars

\* the parse of s[i..]: depth counts the open groups, atom says whether the
\* term before i can take a quantifier
RECURSIVE compileFrom(_, _, _, _)
compileFrom(s, i, depth, atom) ==
    IF i > Len(s) THEN depth = 0
    ELSE LET c == s[i] IN
        CASE c = "\\" -> i < Len(s) /\ compileFrom(s, i + 2, depth, TRUE)
          [] c = "[" ->
                LET e == classEnd(s, i + 1) IN
                e # 0 /\ compileFrom(s, e + 1, depth, TRUE)
          [] c = "(" ->
                IF i < Len(s) /\ s[i + 1] = "?"
                THEN /\ i + 1 < Len(s)
                     /\ s[i + 2] \in {":", "=", "!"}
                     /\ compileFrom(s, i + 3, depth + 1, FALSE)
                ELSE compileFrom(s, i + 1, depth + 1, FALSE)
          [] c = ")" -> depth > 0 /\ compileFrom(s, i + 1, depth - 1, TRUE)
          [] c \in {"|", "^", "$"} -> compileFrom(s, i + 1, depth, FALSE)
          [] c \in {"*", "+", "?"} ->
                atom /\ compileFrom(s, afterLazy(s, i + 1), depth, FALSE)
          [] c = "{" /\ braceEnd(s, i) # 0 ->
                /\ atom
                /\ braceInOrder(s, i)
                /\ compileFrom(s, afterLazy(s, braceEnd(s, i) + 1), depth, FALSE)
          [] OTHER -> compileFrom(s, literalsEnd(s, i + 1), depth, TRUE)

\* new RegExp(pattern) returns (TRUE) or throws a SyntaxError (FALSE)
newRegExp(s) == compileFrom(s, 1, 0, FALSE)

validateRegexSafetyInclusive(p) ==
    IF Len(p) >= maxPatternLength THEN RegexDenied(PatternTooLong)
    ELSE IF \E k \in 1..Len(dangerousPatterns(p)) : dangerousPatterns(p)[k]
         THEN RegexDenied(PatternDangerous)
    ELSE IF ~newRegExp(p) THEN RegexDenied(PatternInvalid)
    ELSE [valid |-> TRUE]

validateRegexSafety(p) ==
    IF Len(p) > maxPatternLength THEN RegexDenied(PatternTooLong)
    ELSE IF \E k \in 1..Len(dangerousPatterns(p)) : dangerousPatterns(p)[k]
         THEN RegexDenied(PatternDangerous)
    ELSE IF ~newRegExp(p) THEN RegexDenied(PatternInvalid)
    ELSE [valid |-> TRUE]

-----------------------------------------------------------------------------
(* Inputs of the pattern check *)

MaxPatLen == 5

PatternChars == {"a", "(", ")", "+", "*", "|"}

ShortPatterns == UNION { [1..n -> PatternChars] : n \in 0..MaxPatLen }

nestedPlus == <<"(", "a", "+", ")", "+">>
nestedInner == <<"(", "(", "a", "+", ")", ")", "+">>
nestedBrace == <<"(", "a", "+", ")", "{", "2", ",", "}">>
nestedOptional == <<"(", "a", "+", ")", "?">>
innerBrace == <<"(", "a", "{", "2", ",", "}", ")", "+">>
altPlus == <<"(", "a", "|", "b", ")", "+">>
altBrace == <<"(", "a", "|", "b", ")", "{", "2", ",", "}">>
altInner == <<"(", "(", "a", "|", "b", ")", ")", "+">>
threeStars == <<".", "*", ".", "*", ".", "*">>
threePluses == <<".", "+", ".", "+", ".", "+">>
starPlusStar == <<".", "*", ".", "+", ".", "*">>
twoStars == <<".", "*", ".", "*">>
repeatStar == <<"(", ".", "*", ")", "{", "3", ",", "}">>
lossPattern == <<"l", "o", "s", "s", ":", " ", "(", "[", "\\", "d", ".", "]", "+", ")">>
errorPattern == <<"e", "r", "r", "o", "r">>
escapedGroup == <<"\\", "(", "a", "+", "\\", ")", "+">>
unclosedGroup == <<"(", "a">>
unclosedClass == <<"[", "a">>
loneBackslash == <<"a", "\\">>
braceOutOfOrder == <<"a", "{", "2", ",", "1", "}">>
nestedUnclosed == <<"(", "a", "+", ")", "+", "(">>
lazyPlus == <<"a", "+", "?">>
literalBrace == <<"a", "{", "b", "}">>
nonCapturing == <<"(", "?", ":", "a", ")", "b">>

SamplePatterns ==
    { nestedPlus, nestedInner, nestedBrace, nestedOptional, innerBrace,
      altPlus, altBrace, altInner,
      threeStars, threePluses, starPlusStar, twoStars, repeatStar,
      lossPattern, errorPattern, escapedGroup,
      unclosedGroup, unclosedClass, loneBackslash, braceOutOfOrder,
      nestedUnclosed, lazyPlus, literalBrace, nonCapturing }

\* core followed by as many "a" as make the length n
padTo(core, n) == core \o [k \in 1..(n - Len(core)) |-> "a"]

LongPatterns ==
    { padTo(core, n) : core \in {<<>>, nestedPlus, unclosedGroup, threeStars},
                       n \in (maxPatternLength - 1)..(maxPatternLength + 1) }

PatternInputs == ShortPatterns \cup SamplePatterns \cup LongPatterns

InitRegex ==
    /\ allowedPaths = <<RootDO>>
    /\ processCwd = RootD
    /\ configToken = <<"t", "k">>
    /\ InitPathIdle
    /\ InitShellIdle
    /\ pattern \in PatternInputs
    /\ regexResult = NoResult
    /\ InitPm2Idle
    /\ InitAuthLoaded
    /\ InitServerIdle

\* one call validateRegexSafety(pattern)
CallValidateRegexSafety ==
    /\ regexResult = NoResult
    /\ regexResult' = validateRegexSafety(pattern)
    /\ UNCHANGED <<configVars, pathVars, shellVars, pm2Vars, toolVars, authVars, cmdVars, pattern>>
    /\ UNCHANGED serverVars

NextRegex == CallValidateRegexSafety

SpecRegex == InitRegex /\ [][NextRegex]_vars


-----------------------------------------------------------------------------
(* The pattern as the specification reads it: groups are the balanced      *)
(* pairs of unescaped parentheses, a quantifier is +, *, ? or a brace      *)
(* {n}, {n,}, {n,m} that follows a term, a wildcard is an unescaped dot    *)
(* followed by * or +.  None of the patterns checked holds a doubled       *)
(* backslash or a parenthesis inside a class.                              *)

Escaped(s, i) == i > 1 /\ s[i - 1] = "\\"

OpensGroup(s, i) == s[i] = "(" /\ ~Escaped(s, i)
ClosesGroup(s, j) == s[j] = ")" /\ ~Escaped(s, j)

Opened(s, i, m) == Cardinality({k \in i..m : OpensGroup(s, k)})
Closed(s, i, m) == Cardinality({k \in i..m : ClosesGroup(s, k)})

\* s[i] opens the group that s[j] closes
IsGroup(s, i, j) ==
    /\ i < j
    /\ OpensGroup(s, i)
    /\ ClosesGroup(s, j)
    /\ Opened(s, i, j) = Closed(s, i, j)
    /\ \A m \in i..(j - 1) : Opened(s, i, m) > Closed(s, i, m)

BraceQuantifierAt(s, k) ==
    /\ s[k] = "{"
    /\ \E e \in (k + 2)..Len(s) :
        /\ s[e] = "}"
        /\ s[k + 1] \in Digits
        /\ \A m \in (k + 1)..(e - 1) : s[m] \in Digits \cup {","}
        /\ Cardinality({m \in (k + 1)..(e - 1) : s[m] = ","}) <= 1

Quantifies(s, k) ==
    /\ k \in 2..Len(s)
    /\ ~Escaped(s, k)
    /\ \/ s[k] \in {"+", "*"}
       \/ s[k] = "?" /\ s[k - 1] # "("
       \/ BraceQuantifierAt(s, k)

QuantifiedGroup(s, i, j) == IsGroup(s, i, j) /\ Quantifies(s, j + 1)

\* a quantified group whose body holds another quantified sub-expression
NestedQuantifier(s) ==
    \E i \in 1..Len(s) : OpensGroup(s, i) /\
        \E j \in (i + 1)..Len(s) :
            QuantifiedGroup(s, i, j) /\ \E k \in (i + 1)..(j - 1) : Quantifies(s, k)

\* a quantified group whose body holds an alternation
QuantifiedAlternation(s) ==
    \E i \in 1..Len(s) : OpensGroup(s, i) /\
        \E j \in (i + 1)..Len(s) :
            QuantifiedGroup(s, i, j) /\
            \E k \in (i + 1)..(j - 1) : s[k] = "|" /\ ~Escaped(s, k)

WildcardAt(s, i) ==
    /\ i >= 1
    /\ i + 1 <= Len(s)
    /\ s[i] = "."
    /\ ~Escaped(s, i)
    /\ s[i + 1] \in {"*", "+"}

ThreeWildcards(s) ==
    \E i \in 1..Len(s) : WildcardAt(s, i) /\ WildcardAt(s, i + 2) /\ WildcardAt(s, i + 4)

RepeatedWildcard(s) == includes(s, repeatStar)

Screened == regexResult # NoResult

\* C11: every pattern that compiles, is within the length cap and holds a
\* quantified group whose body holds another quantified sub-expression, or a
\* quantified group holding an alternation, is denied as dangerous, whichever
\* quantifier follows the group and however the group is nested.
C11_NestedQuantifiersFlagged ==
    (/\ Screened
     /\ Len(pattern) <= 200
     /\ newRegExp(pattern)
     /\ NestedQuantifier(pattern) \/ QuantifiedAlternation(pattern))
    => regexResult = RegexDenied(PatternDangerous)

\* C12: every pattern within the length cap that holds three or more
\* consecutive wildcards, each of them .* or .+, or the repeat (.*){3,}, is
\* denied as dangerous.
C12_WildcardRunsFlagged ==
    (/\ Screened
     /\ Len(pattern) <= 200
     /\ ThreeWildcards(pattern) \/ RepeatedWildcard(pattern))
    => regexResult = RegexDenied(PatternDangerous)

-----------------------------------------------------------------------------
(* src/src/tools/pm2.ts: grepLogs and the handlers of pm2_grep and         *)
(* pm2_metrics.  A file is NoFile (the process has no path for it), a path *)
(* that cannot be read, or a path with its content.  The text of a         *)
(* response is kept as the data it is formatted from.                      *)

Unreadable == [path |-> TRUE, readable |-> FALSE]
FileOf(content) == [path |-> TRUE, readable |-> TRUE, content |-> content]

maxLineLength == 10000
defaultMaxMatches == 50
defaultContextLines == 0
defaultLines == 1000
maxMetricPatterns == 10

MinOf(a, b) == IF a <= b THEN a ELSE b
MaxOf(a, b) == IF a >= b THEN a ELSE b

\* Array.prototype.slice(start, end) and String.prototype.slice(start, end),
\* 0-based, end exclusive, a negative index counted from the end
sliceIndex(n, k) == IF k < 0 THEN MaxOf(n + k, 0) ELSE MinOf(k, n)
slice(xs, start, end) ==
    SubSeq(xs, sliceIndex(Len(xs), start) + 1, sliceIndex(Len(xs), end))
sliceFrom(xs, start) == slice(xs, start, Len(xs))

\* content.split("\n"): the pieces between the newlines, taken one newline
\* at a time (cur is the piece begun, acc the pieces completed)
RECURSIVE splitLines(_, _, _)
splitLines(s, cur, acc) ==
    LET newlines == { k \in 1..Len(s) : s[k] = "\n" } IN
    IF newlines = {} THEN Append(acc, cur \o s)
    ELSE LET n == CHOOSE x \in newlines : \A y \in newlines : x <= y IN
         splitLines(SubSeq(s, n + 1, Len(s)), <<>>, Append(acc, cur \o SubSeq(s, 1, n - 1)))

\* The expressions run against log lines have one of two shapes: a literal
\* text, or a literal text followed by the group (\d+).
digitGroup == <<"(", "\\", "d", "+", ")">>

isLiteral(p) == \A k \in 1..Len(p) : p[k] \notin SyntaxChars \cup {".", "]", "}"}

literalPart(p) == IF isLiteral(p) THEN p ELSE SubSeq(p, 1, Len(p) - Len(digitGroup))

NoMatch == [matched |-> FALSE]

\* String.prototype.match(regex) without the g flag: the leftmost match and
\* its first group (Undefined when the expression has no group)
regexMatch(p, line) ==
    LET lit == literalPart(p)
        starts == { i \in 1..(Len(line) + 1) :
                      /\ i + Len(lit) - 1 <= Len(line)
                      /\ SubSeq(line, i, i + Len(lit) - 1) = lit
                      /\ isLiteral(p) \/ (i + Len(lit) <= Len(line) /\ line[i + Len(lit)] \in Digits) }
    IN  IF starts = {} THEN NoMatch
        ELSE LET i == CHOOSE x \in starts : \A y \in starts : x <= y IN
             [ matched |-> TRUE,
               group1 |-> IF isLiteral(p) THEN Undefined
                          ELSE SubSeq(line, i + Len(lit), digitsEnd(line, i + Len(lit)) - 1) ]

\* RegExp.prototype.test
regexTest(p, line) == regexMatch(p, line).matched

\* the for loop of grepLogs from index i (0-based) on
RECURSIVE grepLoop(_, _, _, _, _, _)
grepLoop(lines, i, results, regex, contextLines, maxMatches) ==
    IF ~(i < Len(lines) /\ Len(results) < maxMatches)
    THEN [threw |-> FALSE, results |-> results, scanned |-> i]
    ELSE LET line == slice(lines[i + 1], 0, maxLineLength) IN
         IF regexTest(regex, line)
         THEN grepLoop(lines, i + 1,
                  Append(results,
                      [ lineNumber |-> i + 1,
                        line |-> lines[i + 1],
                        context |->
                            [ before |-> slice(lines, MaxOf(0, i - contextLines), i),
                              after |-> slice(lines, i + 1, i + 1 + contextLines) ] ]),
                  regex, contextLines, maxMatches)
         ELSE grepLoop(lines, i + 1, results, regex, contextLines, maxMatches)

Threw == [threw |-> TRUE]
NotRun == [threw |-> FALSE, results |-> <<>>, scanned |-> 0, skipped |-> TRUE]

\* grepLogs taking one line of context too many
grepLogsWiderContext(file, regex, contextLines, maxMatches) ==
    IF ~file.readable THEN Threw
    ELSE grepLoop(splitLines(file.content, <<>>, <<>>), 0, <<>>, regex, contextLines + 1, maxMatches)

\* grepLogs: readFile rejects for a file that cannot be read; the value
\* returned is results, scanned is the number of lines the loop looked at
grepLogs(file, regex, contextLines, maxMatches) ==
    IF ~file.readable THEN Threw
    ELSE grepLoop(splitLines(file.content, <<>>, <<>>), 0, <<>>, regex, contextLines, maxMatches)

successResponse(message) == [isError |-> FALSE, message |-> message]
errorResponse(message) == [isError |-> TRUE, message |-> message]

\* connectPm2: resolves (TRUE) or rejects (FALSE)
connectPm2(connected, daemon) == connected \/ daemon


\* an optional argument: left out by the caller, or given
Absent == [absent |-> TRUE]
Given(v) == [value |-> v]
withDefault(v, d) == IF v = Absent THEN d ELSE v.value

\* what the handler did with one log file
runGrep(wanted, file, regex, contextLines, remaining) ==
    IF wanted /\ file.path
    THEN grepLogs(file, regex, contextLines, remaining) @@ [skipped |-> FALSE, limit |-> remaining]
    ELSE NotRun

matchesOf(run) == IF run.threw THEN <<>> ELSE run.results

sourceResult(source, run) ==
    IF Len(matchesOf(run)) > 0 THEN << [source |-> source, matches |-> matchesOf(run)] >> ELSE <<>>

NoTrace == [screened |-> FALSE]

\* the handler of pm2_grep, from the call to the response; the text of the
\* success response (no match found, or the listing) is formatted from allResults
pm2GrepSyncNoBudget(call, connected, daemon, process, out, err) ==
    LET contextLines == withDefault(call.context_lines, defaultContextLines)
        type == withDefault(call.type, "all")
        maxMatches == withDefault(call.max_matches, defaultMaxMatches)
        regexValidation == validateRegexSafety(call.pattern)
    IN  IF ~regexValidation.valid
        THEN [ response |-> errorResponse(regexValidation.error),
               connected |-> connected, trace |-> NoTrace ]
        ELSE IF ~connectPm2(connected, daemon)
        THEN [ response |-> errorResponse("pm2.connect failed"),
               connected |-> connected, trace |-> [screened |-> TRUE, compiled |-> FALSE] ]
        ELSE IF ~process
        THEN [ response |-> errorResponse("process does not exist"),
               connected |-> TRUE, trace |-> [screened |-> TRUE, compiled |-> FALSE] ]
        ELSE IF ~newRegExp(call.pattern)
        THEN [ response |-> errorResponse("SyntaxError"),
               connected |-> TRUE, trace |-> [screened |-> TRUE, compiled |-> FALSE] ]
        ELSE
            LET stdout == runGrep(type \in {"out", "all"}, out, call.pattern, contextLines, maxMatches)
                remaining == maxMatches - Len(matchesOf(stdout))
                stderr == runGrep(type \in {"err", "all"} /\ remaining > 0, err,
                                  call.pattern, contextLines, maxMatches)
                allResults == sourceResult("stdout", stdout) \o sourceResult("stderr", stderr)
            IN  [ response |-> successResponse(allResults),
                  connected |-> TRUE,
                  trace |-> [ screened |-> TRUE, compiled |-> TRUE,
                              stdout |-> stdout, stderr |-> stderr ] ]

pm2GrepSync(call, connected, daemon, process, out, err) ==
    LET contextLines == withDefault(call.context_lines, defaultContextLines)
        type == withDefault(call.type, "all")
        maxMatches == withDefault(call.max_matches, defaultMaxMatches)
        regexValidation == validateRegexSafety(call.pattern)
    IN  IF ~regexValidation.valid
        THEN [ response |-> errorResponse(regexValidation.error),
               connected |-> connected, trace |-> NoTrace ]
        ELSE IF ~connectPm2(connected, daemon)
        THEN [ response |-> errorResponse("pm2.connect failed"),
               connected |-> connected, trace |-> [screened |-> TRUE, compiled |-> FALSE] ]
        ELSE IF ~process
        THEN [ response |-> errorResponse("process does not exist"),
               connected |-> TRUE, trace |-> [screened |-> TRUE, compiled |-> FALSE] ]
        ELSE IF ~newRegExp(call.pattern)
        THEN [ response |-> errorResponse("SyntaxError"),
               connected |-> TRUE, trace |-> [screened |-> TRUE, compiled |-> FALSE] ]
        ELSE
            LET stdout == runGrep(type \in {"out", "all"}, out, call.pattern, contextLines, maxMatches)
                remaining == maxMatches - Len(matchesOf(stdout))
                stderr == runGrep(type \in {"err", "all"} /\ remaining > 0, err,
                                  call.pattern, contextLines, remaining)
                allResults == sourceResult("stdout", stdout) \o sourceResult("stderr", stderr)
            IN  [ response |-> successResponse(allResults),
                  connected |-> TRUE,
                  trace |-> [ screened |-> TRUE, compiled |-> TRUE,
                              stdout |-> stdout, stderr |-> stderr ] ]

\* the inner for loop of pm2_metrics from index i (0-based) on
RECURSIVE metricLoop(_, _, _, _, _)
metricLoop(logLines, i, values, regex, lines) ==
    IF ~(i < Len(logLines)) THEN values
    ELSE LET line == slice(logLines[i + 1], 0, maxLineLength)
             match == regexMatch(regex, line)
         IN  IF match.matched /\ Truthy(match.group1)
             THEN metricLoop(logLines, i + 1,
                      Append(values, [ value |-> match.group1,
                                       lineNumber |-> Len(logLines) - lines + i + 1 ]),
                      regex, lines)
             ELSE metricLoop(logLines, i + 1, values, regex, lines)

Null == [null |-> TRUE]

metricResult(entry, logLines, lines) ==
    LET values == metricLoop(logLines, 0, <<>>, entry.pattern, lines) IN
    [ name |-> entry.name,
      values |-> values,
      latest |-> IF Len(values) > 0 THEN values[Len(values)].value ELSE Null ]

\* the handler of pm2_metrics, from the call to the response
\* pm2_metrics screening only the first pattern before it goes on
pm2MetricsSyncFirstOnly(call, connected, daemon, process, out) ==
    LET patternEntries == call.patterns
        lines == withDefault(call.lines, defaultLines)
    IN  IF Len(patternEntries) > maxMetricPatterns
        THEN [ response |-> errorResponse("at most 10 metric patterns"),
               connected |-> connected, trace |-> NoTrace ]
        ELSE IF Len(patternEntries) = 0
        THEN [ response |-> errorResponse("at least one metric pattern is needed"),
               connected |-> connected, trace |-> NoTrace ]
        ELSE IF ~validateRegexSafety(patternEntries[1].pattern).valid
        THEN [ response |-> errorResponse(<<patternEntries[1].name,
                                            validateRegexSafety(patternEntries[1].pattern).error>>),
               connected |-> connected, trace |-> NoTrace ]
        ELSE [ response |-> successResponse(<<>>),
               connected |-> connected, trace |-> [screened |-> TRUE, compiled |-> TRUE] ]

pm2MetricsSync(call, connected, daemon, process, out) ==
    LET patternEntries == call.patterns
        lines == withDefault(call.lines, defaultLines)
        invalid == { k \in 1..Len(patternEntries) :
                        ~validateRegexSafety(patternEntries[k].pattern).valid }
    IN  IF Len(patternEntries) > maxMetricPatterns
        THEN [ response |-> errorResponse("at most 10 metric patterns"),
               connected |-> connected, trace |-> NoTrace ]
        ELSE IF Len(patternEntries) = 0
        THEN [ response |-> errorResponse("at least one metric pattern is needed"),
               connected |-> connected, trace |-> NoTrace ]
        ELSE IF invalid # {}
        THEN LET k == CHOOSE x \in invalid : \A y \in invalid : x <= y IN
             [ response |-> errorResponse(<<patternEntries[k].name,
                                            validateRegexSafety(patternEntries[k].pattern).error>>),
               connected |-> connected, trace |-> NoTrace ]
        ELSE IF ~connectPm2(connected, daemon)
        THEN [ response |-> errorResponse("pm2.connect failed"),
               connected |-> connected, trace |-> [screened |-> TRUE, compiled |-> FALSE] ]
        ELSE IF ~process
        THEN [ response |-> errorResponse("process does not exist"),
               connected |-> TRUE, trace |-> [screened |-> TRUE, compiled |-> FALSE] ]
        ELSE IF ~out.path
        THEN [ response |-> errorResponse("the process has no log file"),
               connected |-> TRUE, trace |-> [screened |-> TRUE, compiled |-> FALSE] ]
        ELSE IF ~out.readable
        THEN [ response |-> errorResponse("cannot read the log file"),
               connected |-> TRUE, trace |-> [screened |-> TRUE, compiled |-> FALSE] ]
        ELSE
            LET allLines == splitLines(out.content, <<>>, <<>>)
                logLines == sliceFrom(allLines, 0 - lines)
            IN  [ response |->
                      successResponse([ k \in 1..Len(patternEntries) |->
                                          metricResult(patternEntries[k], logLines, lines) ]),
                  connected |-> TRUE,
                  trace |-> [ screened |-> TRUE, compiled |-> TRUE,
                              logLines |-> logLines,
                              skipped |-> Len(allLines) - Len(logLines) ] ]


-----------------------------------------------------------------------------
(* Inputs of the log tools *)

MaxLines == 3

lineE1 == <<"e", "1">>
lineE2 == <<"e", "2">>
lineN == <<"n">>
newline == <<"\n">>

LineTexts == { lineE1, lineE2, lineN }

LineLists == UNION { [1..n -> LineTexts] : n \in 0..MaxLines }

\* a log is its lines joined by newlines, with or without a final newline
LogContents == { join(lns, newline) \o end : lns \in LineLists, end \in {<<>>, newline} }

OutLogs == { NoFile, Unreadable } \cup { FileOf(c) : c \in LogContents }

ErrLogs == { NoFile, Unreadable, FileOf(join(<<lineN, lineE1, lineE2>>, newline) \o newline) }

literalE == <<"e">>
groupE == <<"e">> \o digitGroup

GrepPatterns == { literalE, groupE, nestedPlus, unclosedGroup }

GrepCalls ==
    [ tool : {"pm2_grep"},
      pattern : GrepPatterns,
      context_lines : {Absent, Given(1)},
      type : {Absent, Given("out"), Given("err")},
      max_matches : {Absent, Given(1), Given(2)} ]

metric(name, p) == [name |-> name, pattern |-> p]

PatternMaps ==
    { <<>>,
      << metric("m1", groupE) >>,
      << metric("m1", groupE), metric("m2", lineN) >>,
      << metric("m1", groupE), metric("m2", nestedPlus), metric("m3", unclosedGroup) >>,
      [ k \in 1..(maxMetricPatterns + 1) |-> metric(ToString(k), groupE) ] }

MetricsCalls ==
    [ tool : {"pm2_metrics"},
      patterns : PatternMaps,
      lines : {Absent} \cup { Given(n) : n \in 1..MaxLines } ]

InitLog ==
    /\ allowedPaths = <<RootDO>>
    /\ processCwd = RootD
    /\ configToken = <<"t", "k">>
    /\ InitPathIdle
    /\ InitShellIdle
    /\ InitRegexIdle
    /\ pm2Connected = FALSE
    /\ \/ /\ pm2Daemon = TRUE
          /\ pm2Process = TRUE
          /\ outLog \in OutLogs
          /\ errLog \in ErrLogs
       \/ /\ pm2Daemon \in BOOLEAN
          /\ pm2Process = ~pm2Daemon
          /\ outLog = FileOf(lineE1 \o newline)
          /\ errLog = NoFile
    /\ toolCall = NoRequest
    /\ toolResponse = NoResult
    /\ toolTrace = NoResult
    /\ InitAuthLoaded
    /\ InitServerIdle

\* a pm2_grep call arrives and is answered
pm2_grep ==
    /\ toolCall = NoRequest
    /\ \E call \in GrepCalls :
        LET r == pm2GrepSync(call, pm2Connected, pm2Daemon, pm2Process, outLog, errLog) IN
        /\ toolCall' = call
        /\ toolResponse' = r.response
        /\ toolTrace' = r.trace
        /\ pm2Connected' = r.connected
    /\ UNCHANGED <<configVars, pathVars, shellVars, regexVars, authVars, cmdVars, pm2Daemon, pm2Process, outLog, errLog>>
    /\ UNCHANGED serverVars

\* a pm2_metrics call arrives and is answered
pm2_metrics ==
    /\ toolCall = NoRequest
    /\ \E call \in MetricsCalls :
        LET r == pm2MetricsSync(call, pm2Connected, pm2Daemon, pm2Process, outLog) IN
        /\ toolCall' = call
        /\ toolResponse' = r.response
        /\ toolTrace' = r.trace
        /\ pm2Connected' = r.connected
    /\ UNCHANGED <<configVars, pathVars, shellVars, regexVars, authVars, cmdVars, pm2Daemon, pm2Process, outLog, errLog>>
    /\ UNCHANGED serverVars

\* the response has been sent; the next call may arrive
toolReturns ==
    /\ toolCall # NoRequest
    /\ toolCall' = NoRequest
    /\ toolResponse' = NoResult
    /\ toolTrace' = NoResult
    /\ UNCHANGED <<configVars, pathVars, shellVars, regexVars, authVars, cmdVars, pm2Vars>>
    /\ UNCHANGED serverVars

NextLog ==
    \/ pm2_grep
    \/ pm2_metrics
    \/ toolReturns

SpecLog == InitLog /\ [][NextLog]_vars


-----------------------------------------------------------------------------
(* The log as the specification reads it: a line is a piece of the content *)
(* that ends at a newline, or the piece after the last newline when that   *)
(* piece is not empty; lines are numbered from 1.                          *)

LineStartsOf(c) ==
    { i \in 1..Len(c) : i = 1 \/ c[i - 1] = "\n" }

LineCount(c) == Cardinality(LineStartsOf(c))

NthOf(S, n) == CHOOSE x \in S : Cardinality({ y \in S : y <= x }) = n

Ascending(S) == [ n \in 1..Cardinality(S) |-> NthOf(S, n) ]

LineEndOf(c, i) ==
    LET ends == { j \in i..(Len(c) + 1) : j = Len(c) + 1 \/ c[j] = "\n" } IN
    NthOf(ends, 1) - 1

TextLine(c, n) ==
    LET i == NthOf(LineStartsOf(c), n) IN SubSeq(c, i, LineEndOf(c, i))

\* the numbers of the lines of c that the expression p matches
MatchingLines(c, p) == { n \in 1..LineCount(c) : regexTest(p, TextLine(c, n)) }

FirstOf(S, k) == { n \in S : Cardinality({ m \in S : m <= n }) <= k }

HighestOf(S) == CHOOSE x \in S : \A y \in S : y <= x

RECURSIVE TotalMatches(_)
TotalMatches(allResults) ==
    IF allResults = <<>> THEN 0
    ELSE Len(Head(allResults).matches) + TotalMatches(Tail(allResults))

Answered(tool) == toolCall # NoRequest /\ toolCall.tool = tool

\* the call passed the screening, PM2 answered and the expression was compiled
Searched(tool) == Answered(tool) /\ toolTrace.screened /\ toolTrace.compiled

GrepRan(run) == ~run.skipped /\ ~run.threw

\* one grepLogs call on a readable file returns at most its maxMatches
\* results, those of the first matching lines in file order, and does not look
\* at a line after the one that completed the results
GrepCapped(run, file) ==
    LET hits == MatchingLines(file.content, toolCall.pattern)
        kept == FirstOf(hits, run.limit)
    IN  /\ Len(run.results) <= run.limit
        /\ [ k \in 1..Len(run.results) |-> run.results[k].lineNumber ] = Ascending(kept)
        /\ Cardinality(kept) = run.limit => run.scanned = HighestOf(kept)

\* C14: every grepLogs call returns at most maxMatches results, the first
\* matching lines in file order, and stops scanning at the line that completes
\* them; the matches pm2_grep reports over stdout and stderr together never
\* exceed max_matches (50 when left out).
C14_MatchCap ==
    Searched("pm2_grep") =>
        /\ GrepRan(toolTrace.stdout) => GrepCapped(toolTrace.stdout, outLog)
        /\ GrepRan(toolTrace.stderr) => GrepCapped(toolTrace.stderr, errLog)
        /\ ~toolResponse.isError
        /\ TotalMatches(toolResponse.message) <= withDefault(toolCall.max_matches, 50)
        /\ TotalMatches(toolResponse.message)
              = Len(matchesOf(toolTrace.stdout)) + Len(matchesOf(toolTrace.stderr))

\* max_matches 2, one match in stdout, and stderr, which holds two matching
\* lines, is searched for one match only
C14_Witness ==
    /\ Searched("pm2_grep")
    /\ toolCall.max_matches = Given(2)
    /\ GrepRan(toolTrace.stdout)
    /\ GrepRan(toolTrace.stderr)
    /\ Len(toolTrace.stdout.results) = 1
    /\ toolTrace.stderr.limit = 1
    /\ Len(toolTrace.stderr.results) = 1
    /\ Cardinality(MatchingLines(errLog.content, toolCall.pattern)) = 2
    /\ toolTrace.stderr.scanned < LineCount(errLog.content)

\* a pattern with a capture group
HasGroup(p) == ~isLiteral(p)

\* the samples of pattern p in the trailing w lines of c, in file order
WindowSamples(c, p, w) ==
    LET n == LineCount(c)
        hits == { k \in 1..n : k > n - w /\ regexMatch(p, TextLine(c, k)).matched }
    IN  [ k \in 1..Cardinality(hits) |-> regexMatch(p, TextLine(c, NthOf(hits, k))).group1 ]

\* C15: for a log whose trailing windowLines lines hold k lines matching a
\* pattern, pm2_metrics records exactly those k group-1 values in file order,
\* latest is the value of the last of them (null when there is none), and no
\* line before the trailing windowLines lines is looked at.
C15_TrailingWindowSamples ==
    (Searched("pm2_metrics") /\ ~toolResponse.isError) =>
        LET w == withDefault(toolCall.lines, 1000)
            c == outLog.content
        IN  /\ \A m \in 1..Len(toolCall.patterns) :
                    LET p == toolCall.patterns[m].pattern
                        expected == WindowSamples(c, p, w)
                        r == toolResponse.message[m]
                    IN  HasGroup(p) =>
                            /\ [ k \in 1..Len(r.values) |-> r.values[k].value ] = expected
                            /\ r.latest = IF expected = <<>> THEN Null
                                          ELSE expected[Len(expected)]
            /\ toolTrace.skipped >= LineCount(c) - w

\* C16: when PM2 answers and the patterns pass the screening, a log file
\* that cannot be read counts as a log without matches in pm2_grep and in
\* pm2_metrics: the response is not an error response.
C16_UnreadableLogIsNoMatch ==
    (/\ toolCall # NoRequest
     /\ pm2Daemon
     /\ pm2Process
     /\ toolTrace.screened
     /\ \/ /\ toolCall.tool = "pm2_grep"
           /\ \/ withDefault(toolCall.type, "all") \in {"out", "all"} /\ outLog = Unreadable
              \/ withDefault(toolCall.type, "all") \in {"err", "all"} /\ errLog = Unreadable
        \/ /\ toolCall.tool = "pm2_metrics"
           /\ outLog = Unreadable)
    => ~toolResponse.isError


-----------------------------------------------------------------------------
(* src/unnamed/part_001 (auth.ts): loadConfig *)

defaultPort == <<"9", "0", "0", "1">>

NaN == [nan |-> TRUE]

\* parseInt(s, 10) of a string without sign or leading whitespace
parseInt(s) ==
    IF digitsEnd(s, 1) = 1 THEN NaN
    ELSE [value |-> decimalValue(s, 1, digitsEnd(s, 1), 0)]

\* Array.prototype.filter((p) => p.length > 0) after map((p) => p.trim())
RECURSIVE trimAndFilter(_)
trimAndFilter(parts) ==
    IF parts = <<>> THEN <<>>
    ELSE IF Len(trim(Head(parts))) > 0
         THEN <<trim(Head(parts))>> \o trimAndFilter(Tail(parts))
         ELSE trimAndFilter(Tail(parts))

ThrewError(message) == [threw |-> TRUE, message |-> message]
Returned(value) == [threw |-> FALSE, value |-> value]

\* loadConfig() with the module variable cfg and process.env e: the new
\* value of the module variable and what the call returned or threw
loadConfigReread(cfg, e) ==
    LET token == e.SENTINEL_TOKEN
        allowedPathsStr == e.SENTINEL_ALLOWED_PATHS
        port == parseInt(IF Truthy(e.SENTINEL_PORT) THEN e.SENTINEL_PORT ELSE defaultPort)
    IN  IF ~Truthy(token)
        THEN [config |-> cfg, outcome |-> ThrewError("SENTINEL_TOKEN environment variable is required")]
        ELSE IF ~Truthy(allowedPathsStr)
        THEN [config |-> cfg, outcome |-> ThrewError("SENTINEL_ALLOWED_PATHS environment variable is required")]
        ELSE LET paths == trimAndFilter(splitOn(allowedPathsStr, {","}, <<>>, <<>>)) IN
             IF Len(paths) = 0
             THEN [config |-> cfg, outcome |-> ThrewError("SENTINEL_ALLOWED_PATHS must contain at least one path")]
             ELSE LET loaded == [token |-> token, allowedPaths |-> paths, port |-> port] IN
                  [config |-> loaded, outcome |-> Returned(loaded)]

loadConfig(cfg, e) ==
    IF cfg # Null THEN [config |-> cfg, outcome |-> Returned(cfg)]
    ELSE
    LET token == e.SENTINEL_TOKEN
        allowedPathsStr == e.SENTINEL_ALLOWED_PATHS
        port == parseInt(IF Truthy(e.SENTINEL_PORT) THEN e.SENTINEL_PORT ELSE defaultPort)
    IN  IF ~Truthy(token)
        THEN [config |-> cfg, outcome |-> ThrewError("SENTINEL_TOKEN environment variable is required")]
        ELSE IF ~Truthy(allowedPathsStr)
        THEN [config |-> cfg, outcome |-> ThrewError("SENTINEL_ALLOWED_PATHS environment variable is required")]
        ELSE LET paths == trimAndFilter(splitOn(allowedPathsStr, {","}, <<>>, <<>>)) IN
             IF Len(paths) = 0
             THEN [config |-> cfg, outcome |-> ThrewError("SENTINEL_ALLOWED_PATHS must contain at least one path")]
             ELSE LET loaded == [token |-> token, allowedPaths |-> paths, port |-> port] IN
                  [config |-> loaded, outcome |-> Returned(loaded)]

-----------------------------------------------------------------------------
(* Inputs of loadConfig *)

comma == <<",">>

TokenValues == { Undefined, <<>>, <<"t", "k">>, <<"t", "x">> }

AllowedPathsValues ==
    { Undefined, <<>>, <<" ">>, comma, <<" ", ",", " ", ",">>,
      RootDO, RootDO \o comma \o <<" ">> \o RootO2,
      comma \o RootDO \o comma, <<" ">> \o RootDO \o <<" ">> }

PortValues == { Undefined, <<>>, <<"8", "0">>, <<"x">> }

EnvInputs ==
    [ SENTINEL_TOKEN : TokenValues,
      SENTINEL_ALLOWED_PATHS : AllowedPathsValues,
      SENTINEL_PORT : PortValues ]

InitConfig ==
    /\ allowedPaths = <<RootDO>>
    /\ processCwd = RootD
    /\ configToken = <<"t", "k">>
    /\ InitPathIdle
    /\ InitShellIdle
    /\ InitRegexIdle
    /\ InitPm2Idle
    /\ env \in EnvInputs
    /\ config = Null
    /\ loadOutcome = NoResult
    /\ InitCmdIdle
    /\ InitServerIdle

\* one call loadConfig(); before records the module variable and the
\* environment the call found
CallLoadConfig ==
    LET r == loadConfig(config, env) IN
    /\ config' = r.config
    /\ loadOutcome' = r.outcome @@ [before |-> config, env |-> env]
    /\ UNCHANGED <<configVars, pathVars, shellVars, regexVars, pm2Vars, toolVars, cmdVars, env>>
    /\ UNCHANGED serverVars

\* the environment of the process changes between two calls
envChanges ==
    /\ loadOutcome # NoResult
    /\ \E e \in EnvInputs : e # env /\ env' = e
    /\ loadOutcome' = NoResult
    /\ UNCHANGED <<configVars, pathVars, shellVars, regexVars, pm2Vars, toolVars, cmdVars, config>>
    /\ UNCHANGED serverVars

NextConfig ==
    \/ CallLoadConfig
    \/ envChanges

SpecConfig == InitConfig /\ [][NextConfig]_vars


-----------------------------------------------------------------------------
(* The environment as the specification reads it *)

Missing(v) == v = Undefined \/ v = <<>>

\* the allow-list has no entry: between its commas there is only whitespace
NoEntry(str) == \A k \in 1..Len(str) : str[k] \in WhiteSpace \cup {","}

BadEnvironment(e) ==
    \/ Missing(e.SENTINEL_TOKEN)
    \/ Missing(e.SENTINEL_ALLOWED_PATHS)
    \/ NoEntry(e.SENTINEL_ALLOWED_PATHS)

\* C17: a loadConfig call that finds no cached config throws exactly when the
\* token is missing, the allow-list is missing, or the allow-list has no
\* non-empty entry after the split on commas and the trim, and a call that
\* throws leaves no config cached; whenever a config is cached its
\* allowedPaths is non-empty and holds no empty entry; a call that finds a
\* cached config returns it and keeps it, whatever the environment now holds.
C17_LoadConfig ==
    /\ config # Null =>
          /\ Len(config.allowedPaths) > 0
          /\ \A k \in 1..Len(config.allowedPaths) : config.allowedPaths[k] # <<>>
    /\ loadOutcome # NoResult =>
          /\ loadOutcome.before = Null =>
                (loadOutcome.threw <=> BadEnvironment(loadOutcome.env))
          /\ loadOutcome.threw => config = Null
          /\ ~loadOutcome.threw => loadOutcome.value = config
          /\ loadOutcome.before # Null =>
                /\ ~loadOutcome.threw
                /\ config = loadOutcome.before

\* a call made after the environment lost its allow-list returns the config
\* loaded before
C17_Witness ==
    /\ loadOutcome # NoResult
    /\ loadOutcome.before # Null
    /\ BadEnvironment(env)
    /\ ~loadOutcome.threw
    /\ loadOutcome.value = loadOutcome.before
    /\ Len(config.allowedPaths) = 2


-----------------------------------------------------------------------------
(* validateShellCommand called directly: any allow-list, the empty one     *)
(* included, and the same call evaluated again after the working directory *)
(* of the process has become another one.                                  *)

NoRoots == <<>>

InitValidate ==
    /\ allowedPaths \in RootLists \cup {NoRoots}
    /\ processCwd \in ProcessCwds
    /\ configToken = <<"t", "k">>
    /\ InitPathIdle
    /\ InitShellIdle
    /\ InitRegexIdle
    /\ InitPm2Idle
    /\ env = [ SENTINEL_TOKEN |-> Undefined,
               SENTINEL_ALLOWED_PATHS |-> Undefined,
               SENTINEL_PORT |-> Undefined ]
    /\ config = Null
    /\ loadOutcome = NoResult
    /\ cmdLine \in CommandInputs
    /\ cmdCwd \in CwdInputs
    /\ cmdPc = "start"
    /\ cmdVerdict = NoResult
    /\ cmdVerdictAgain = NoResult
    /\ InitServerIdle

\* validateShellCommand(cmdLine, allowedPaths, cmdCwd)
CallValidateShellCommand ==
    /\ cmdPc = "start"
    /\ cmdVerdict' = validateShellCommand(cmdLine, allowedPaths, cmdCwd)
    /\ cmdPc' = "called"
    /\ UNCHANGED <<configVars, pathVars, shellVars, regexVars, pm2Vars, toolVars, authVars,
                   cmdLine, cmdCwd, cmdVerdictAgain>>
    /\ UNCHANGED serverVars

\* process.cwd() becomes another directory
processCwdChanges ==
    /\ cmdPc = "called"
    /\ \E dir \in ProcessCwds : dir # processCwd /\ processCwd' = dir
    /\ cmdPc' = "moved"
    /\ UNCHANGED <<allowedPaths, configToken, pathVars, shellVars, regexVars, pm2Vars, toolVars,
                   authVars, cmdLine, cmdCwd, cmdVerdict, cmdVerdictAgain>>
    /\ UNCHANGED serverVars

\* the same call once more
CallValidateShellCommandAgain ==
    /\ cmdPc = "moved"
    /\ cmdVerdictAgain' = validateShellCommand(cmdLine, allowedPaths, cmdCwd)
    /\ cmdPc' = "compared"
    /\ UNCHANGED <<configVars, pathVars, shellVars, regexVars, pm2Vars, toolVars, authVars,
                   cmdLine, cmdCwd, cmdVerdict>>
    /\ UNCHANGED serverVars

NextValidate ==
    \/ CallValidateShellCommand
    \/ processCwdChanges
    \/ CallValidateShellCommandAgain

SpecValidate == InitValidate /\ [][NextValidate]_vars

\* C18: with an empty list of allowed roots validatePathSandbox denies every
\* path (here a supplied cwd and every word of the command line, with and
\* without the cwd as base) and validateShellCommand denies every command line, whitelisted
\* commands without path-like argument and without cwd included.
C18_NoRootsDeniesAll ==
    (cmdPc = "called" /\ allowedPaths = NoRoots) =>
        /\ Truthy(cmdCwd) => ~validatePathSandbox(cmdCwd, allowedPaths, Undefined).valid
        /\ \A i \in WordStarts(cmdLine) :
              /\ ~validatePathSandbox(WordAt(cmdLine, i), allowedPaths, cmdCwd).valid
              /\ ~validatePathSandbox(WordAt(cmdLine, i), allowedPaths, Undefined).valid
        /\ ~cmdVerdict.valid

AbsoluteRoots ==
    \A k \in 1..Len(allowedPaths) : allowedPaths[k] # <<>> /\ allowedPaths[k][1] = "/"

\* C19 as stated: two evaluations of validateShellCommand on the same command
\* line, the same absolute roots and the same cwd both permit or both deny,
\* whatever the working directory of the process is at each of them.
C19_SameVerdictWhateverProcessCwd ==
    (cmdPc = "compared" /\ AbsoluteRoots) => cmdVerdictAgain.valid = cmdVerdict.valid

\* nothing in the call is resolved against process.cwd(): the roots are
\* absolute, a supplied cwd is absolute, and without a supplied cwd every
\* path-like argument is absolute
ResolvedWithoutProcessCwd ==
    /\ AbsoluteRoots
    /\ Truthy(cmdCwd) => cmdCwd[1] = "/"
    /\ (~Truthy(cmdCwd) /\ ~NoWords(cmdLine)) =>
          \A i \in ArgStarts(cmdLine) :
              PathLike(WordAt(cmdLine, i)) => WordAt(cmdLine, i)[1] = "/"

\* C19, amended: two evaluations of validateShellCommand on the same command
\* line, roots and cwd return the same verdict, with the same denial, whatever
\* the working directory of the process is at each of them, provided the roots are absolute, a
\* supplied cwd is absolute, and every relative path-like argument comes with
\* a supplied cwd.
C19_SameVerdictWhenAbsolute ==
    (cmdPc = "compared" /\ ResolvedWithoutProcessCwd) => cmdVerdictAgain = cmdVerdict

\* ls ./f with cwd /d/o and roots /o2 and /d/o/ is permitted in both process
\* directories, /d and /o2: ./f is resolved against the cwd
C19_Witness ==
    /\ cmdPc = "compared"
    /\ ResolvedWithoutProcessCwd
    /\ allowedPaths = <<RootO2, RootDOSlash>>
    /\ cmdCwd = RootDO
    /\ cmdLine = ls \o space \o dotFile
    /\ cmdVerdict = Valid
    /\ cmdVerdictAgain = Valid

\* the path-like arguments that the confinement check denies
OffendingArgs ==
    { i \in (IF NoWords(cmdLine) THEN {} ELSE ArgStarts(cmdLine)) :
        /\ PathLike(WordAt(cmdLine, i))
        /\ ~validatePathSandbox(WordAt(cmdLine, i), allowedPaths, cmdCwd).valid }

\* C20: validateShellCommand returns, unchanged, the denial of the first
\* check that fails, in the order whitelist, injection, cwd confinement,
\* argument confinement; of several offending arguments the leftmost is the
\* one reported; a command that is not whitelisted is denied by the whitelist
\* even when it holds a metacharacter, and a whitelisted command holding a
\* metacharacter is denied for the metacharacter whatever its cwd and paths.
C20_FirstFailingCheck ==
    cmdPc = "called" =>
        LET whitelist == validateCommand(cmdLine)
            injection == detectDangerousPatterns(cmdLine)
            cwdCheck == IF Truthy(cmdCwd)
                        THEN validatePathSandbox(cmdCwd, allowedPaths, Undefined)
                        ELSE Valid
        IN  /\ ~whitelist.valid => cmdVerdict = whitelist
            /\ (whitelist.valid /\ ~injection.valid) => cmdVerdict = injection
            /\ (whitelist.valid /\ injection.valid /\ ~cwdCheck.valid) => cmdVerdict = cwdCheck
            /\ (whitelist.valid /\ injection.valid /\ cwdCheck.valid) =>
                  IF OffendingArgs = {} THEN cmdVerdict = Valid
                  ELSE cmdVerdict = validatePathSandbox(WordAt(cmdLine, NthOf(OffendingArgs, 1)),
                                                        allowedPaths, cmdCwd)
            /\ (~NoWords(cmdLine) /\ Leaf(cmdLine) \notin ALLOWED_COMMANDS) =>
                  (~cmdVerdict.valid /\ cmdVerdict.error.kind = "not in whitelist")
            /\ (~NoWords(cmdLine) /\ Leaf(cmdLine) \in ALLOWED_COMMANDS /\ HasMeta(cmdLine)) =>
                  (~cmdVerdict.valid /\ cmdVerdict.error.kind = "Dangerous pattern detected")

\* cat /d/o/../../e o/../../o2 with cwd /d/o: both arguments leave the root
\* /d/o, the denial names /e, the first of them
C20_Witness ==
    /\ cmdPc = "called"
    /\ allowedPaths = <<RootDO>>
    /\ cmdCwd = RootDO
    /\ cmdLine = cat \o space \o escapeDotDot \o space \o relEscape
    /\ Cardinality(OffendingArgs) = 2
    /\ cmdVerdict = Denied("not within allowed paths", <<"/", "e">>)

-----------------------------------------------------------------------------
(* The order of the steps of pm2_grep and pm2_metrics *)

AllSafe(patternEntries) ==
    \A k \in 1..Len(patternEntries) : validateRegexSafety(patternEntries[k].pattern).valid

\* the call is one pm2_metrics turns away before it does anything else
BadMetricsCall(call) ==
    \/ Len(call.patterns) = 0
    \/ Len(call.patterns) > maxMetricPatterns
    \/ ~AllSafe(call.patterns)

\* C21: pm2_grep and pm2_metrics screen every pattern of the call with
\* validateRegexSafety before they connect to PM2, compile a pattern or read a
\* log file: a call with an unsafe pattern, with no pattern or with more than
\* 10 patterns is answered with an error and went no further than the
\* screening, and a call that went further has only safe patterns.
C21_ScreenedBeforeUse ==
    /\ Answered("pm2_grep") =>
         LET safe == validateRegexSafety(toolCall.pattern).valid IN
         /\ ~safe => toolResponse.isError /\ toolTrace = NoTrace
         /\ toolTrace # NoTrace => safe
    /\ Answered("pm2_metrics") =>
         /\ BadMetricsCall(toolCall) => toolResponse.isError /\ toolTrace = NoTrace
         /\ toolTrace # NoTrace => ~BadMetricsCall(toolCall)

\* a pm2_metrics call whose first pattern is safe and whose second is not,
\* on a readable log with a line the first pattern matches, is turned away
C21_Witness ==
    /\ Answered("pm2_metrics")
    /\ Len(toolCall.patterns) = 3
    /\ validateRegexSafety(toolCall.patterns[1].pattern).valid
    /\ ~validateRegexSafety(toolCall.patterns[2].pattern).valid
    /\ pm2Daemon /\ pm2Process
    /\ outLog.path /\ outLog.readable
    /\ MatchingLines(outLog.content, toolCall.patterns[1].pattern) # {}
    /\ toolResponse.isError
    /\ toolTrace = NoTrace

-----------------------------------------------------------------------------
(* grepLogs on its own: a file, a compiled expression, contextLines and    *)
(* maxMatches go in, the MatchResults come out.                            *)

\* a line longer than maxLineLength whose only "e1" lies behind the cut, and
\* one whose "e" is the last character in front of the cut
lineLongTail == [ k \in 1..maxLineLength |-> "n" ] \o lineE1
lineLongEdge == [ k \in 1..(maxLineLength - 1) |-> "n" ] \o lineE1

LongLogContents ==
    { join(<<lineE1, lineLongTail, lineE2>>, newline),
      join(<<lineLongEdge, lineN>>, newline) \o newline,
      lineLongTail }

GrepFiles == { Unreadable } \cup { FileOf(c) : c \in LogContents \cup LongLogContents }

GrepRegexes == { literalE, groupE }

GrepLogsCalls ==
    [ tool : {"grepLogs"},
      pattern : GrepRegexes,
      contextLines : 0..MaxLines,
      maxMatches : {1, 2, defaultMaxMatches} ]

InitGrep ==
    /\ allowedPaths = <<RootDO>>
    /\ processCwd = RootD
    /\ configToken = <<"t", "k">>
    /\ InitPathIdle
    /\ InitShellIdle
    /\ InitRegexIdle
    /\ pm2Connected = FALSE
    /\ pm2Daemon = TRUE
    /\ pm2Process = TRUE
    /\ outLog \in GrepFiles
    /\ errLog = NoFile
    /\ toolCall = NoRequest
    /\ toolResponse = NoResult
    /\ toolTrace = NoResult
    /\ InitAuthLoaded
    /\ InitServerIdle

\* grepLogs(logPath, pattern, contextLines, maxMatches) is called on the
\* stdout log and returns (or rejects)
CallGrepLogs ==
    /\ toolCall = NoRequest
    /\ \E call \in GrepLogsCalls :
        /\ toolCall' = call
        /\ toolResponse' = grepLogs(outLog, call.pattern, call.contextLines, call.maxMatches)
    /\ toolTrace' = NoTrace
    /\ UNCHANGED <<configVars, pathVars, shellVars, regexVars, authVars, cmdVars, pm2Vars>>
    /\ UNCHANGED serverVars

NextGrep ==
    \/ CallGrepLogs
    \/ toolReturns

SpecGrep == InitGrep /\ [][NextGrep]_vars

\* The file as a list of lines: the pieces of the content that the newlines
\* separate, numbered from 1 (a content that ends with a newline has an empty
\* last piece).
PieceStarts(c) == { i \in 1..(Len(c) + 1) : i = 1 \/ c[i - 1] = "\n" }

PieceCount(c) == Cardinality(PieceStarts(c))

PieceEnd(c, i) ==
    CHOOSE j \in i..(Len(c) + 1) :
        /\ j = Len(c) + 1 \/ c[j] = "\n"
        /\ \A k \in i..(j - 1) : c[k] # "\n"

Piece(c, n) ==
    LET i == NthOf(PieceStarts(c), n) IN SubSeq(c, i, PieceEnd(c, i) - 1)

Truncated(line) == SubSeq(line, 1, MinOf(Len(line), maxLineLength))

-----------------------------------------------------------------------------
(* The line numbers of the samples of pm2_metrics *)

\* the sample is the value of line number v.lineNumber of the file
OnItsLine(c, p, v) ==
    /\ v.lineNumber \in 1..LineCount(c)
    /\ regexMatch(p, TextLine(c, v.lineNumber)).matched
    /\ regexMatch(p, TextLine(c, v.lineNumber)).group1 = v.value

\* C23: every sample pm2_metrics records carries a positive line number, the
\* 1-based number of the line of the log file on which its value was found,
\* whether the file is shorter than, as long as or longer than the window.
C23_SampleLineNumbers ==
    (Searched("pm2_metrics") /\ ~toolResponse.isError) =>
        \A k \in 1..Len(toolResponse.message) :
            \A j \in 1..Len(toolResponse.message[k].values) :
                OnItsLine(outLog.content, toolCall.patterns[k].pattern,
                          toolResponse.message[k].values[j])

-----------------------------------------------------------------------------
(* src/src/tools/pm2.ts: the two handlers that build a command line for the *)
(* shell, pm2_logs and pm2_start (with clear_logs).                         *)

DigitChars == <<"0", "1", "2", "3", "4", "5", "6", "7", "8", "9">>

\* String(n) of a whole number n >= 0, as a template literal inserts it
RECURSIVE numberToString(_)
numberToString(n) ==
    IF n < 10 THEN <<DigitChars[n + 1]>>
    ELSE numberToString(n \div 10) \o <<DigitChars[(n % 10) + 1]>>

defaultLogLines == 50

\* pm2_logs up to its await: the command line is built from name, lines and
\* type and handed to execAsync
pm2LogsSync(name, lines, type) ==
    LET n == withDefault(lines, defaultLogLines)
        t == withDefault(type, "all")
        logType == IF t = "all" THEN <<>>
                   ELSE IF t = "out" THEN <<"-", "-", "o", "u", "t">> ELSE <<"-", "-", "e", "r", "r">>
        cmd == trim(<<"p", "m", "2", " ", "l", "o", "g", "s", " ">> \o name \o <<" ", "-", "-", "n", "o", "s", "t", "r", "e", "a", "m", " ", "-", "-", "l", "i", "n", "e", "s", " ">> \o numberToString(n) \o space \o logType)
    IN  [ response |-> NoResult,
          executed |-> [command |-> cmd, options |-> [timeout |-> 10000, maxBuffer |-> 1048576]],
          pc |-> "exec" ]

\* pm2_start up to its first await after connectPm2: the cwd is checked
\* against the allowed roots, PM2 is connected, and with clear_logs the
\* command line "pm2 flush <name>" is handed to execAsync; without it
\* pm2.start is called at once
pm2StartSync(name, cwd, clear_logs, connected, daemon) ==
    LET cwdValidation == validatePathSandbox(cwd, getAllowedPaths, Undefined) IN
    IF ~cwdValidation.valid
    THEN [ response |-> errorResponse(cwdValidation.error),
           executed |-> NoExec, pc |-> "done", connected |-> connected ]
    ELSE IF ~connectPm2(connected, daemon)
    THEN [ response |-> errorResponse("pm2.connect failed"),
           executed |-> NoExec, pc |-> "done", connected |-> connected ]
    ELSE IF clear_logs
    THEN [ response |-> NoResult,
           executed |-> [command |-> <<"p", "m", "2", " ", "f", "l", "u", "s", "h", " ">> \o name, options |-> [timeout |-> 10000]],
           pc |-> "flush", connected |-> TRUE ]
    ELSE [ response |-> NoResult,
           executed |-> NoExec, pc |-> "start", connected |-> TRUE ]

(* Inputs *)

app == <<"a", "p", "p">>

\* process names: a plain one, an id, and names with a metacharacter pattern
\* (or a character that is none) at the end or in the middle
NameInputs ==
    { app, <<"0">> }
        \cup { app \o m : m \in MetaWords }
        \cup { app \o m \o rm : m \in MetaWords }

LinesInputs == { Absent, Given(1), Given(120) }

TypeInputs == { Absent, Given("out"), Given("err"), Given("all") }

StartCwdInputs == { RootDO, RootO2, fileInRoot }

InitExec ==
    /\ allowedPaths = <<RootDO>>
    /\ processCwd = RootD
    /\ configToken = <<"t", "k">>
    /\ InitPathIdle
    /\ InitShellIdle
    /\ InitRegexIdle
    /\ pm2Connected = FALSE
    /\ pm2Daemon \in BOOLEAN
    /\ pm2Process = TRUE
    /\ outLog = NoFile
    /\ errLog = NoFile
    /\ toolCall = NoRequest
    /\ toolResponse = NoResult
    /\ toolTrace = NoResult
    /\ InitAuthLoaded
    /\ InitServerIdle

\* a pm2_logs call arrives and runs up to the await of execAsync
pm2_logs ==
    /\ pc = "idle"
    /\ \E name \in NameInputs, lines \in LinesInputs, type \in TypeInputs :
        LET r == pm2LogsSync(name, lines, type) IN
        /\ request' = [handler |-> "pm2_logs", name |-> name, lines |-> lines, type |-> type]
        /\ response' = r.response
        /\ executed' = r.executed
        /\ pc' = r.pc
    /\ validation' = NoResult
    /\ UNCHANGED <<allowedPaths, processCwd, configToken>>
    /\ UNCHANGED <<pathVars, regexVars, pm2Vars, toolVars, authVars, cmdVars>>
    /\ UNCHANGED serverVars

\* a pm2_start call arrives and runs up to its first await after connectPm2
pm2_start ==
    /\ pc = "idle"
    /\ \E name \in NameInputs, cwd \in StartCwdInputs, clear_logs \in BOOLEAN :
        LET r == pm2StartSync(name, cwd, clear_logs, pm2Connected, pm2Daemon) IN
        /\ request' = [handler |-> "pm2_start", name |-> name, cwd |-> cwd,
                       clear_logs |-> clear_logs]
        /\ response' = r.response
        /\ executed' = r.executed
        /\ pc' = r.pc
        /\ pm2Connected' = r.connected
    /\ validation' = NoResult
    /\ UNCHANGED <<allowedPaths, processCwd, configToken>>
    /\ UNCHANGED <<pathVars, regexVars, toolVars, authVars, cmdVars>>
    /\ UNCHANGED <<pm2Daemon, pm2Process, outLog, errLog>>
    /\ UNCHANGED serverVars

\* "pm2 flush" resolves or rejects; either way the handler goes on to pm2.start
flushSettles ==
    /\ pc = "flush"
    /\ pc' = "start"
    /\ UNCHANGED <<allowedPaths, processCwd, configToken, request, validation, response, executed>>
    /\ UNCHANGED <<pathVars, regexVars, pm2Vars, toolVars, authVars, cmdVars>>
    /\ UNCHANGED serverVars

\* pm2.start calls back, with the process or with an error
startSettles ==
    /\ pc = "start"
    /\ \E ok \in BOOLEAN :
        response' = IF ok THEN successResponse("started") ELSE errorResponse("pm2.start failed")
    /\ pc' = "done"
    /\ UNCHANGED <<allowedPaths, processCwd, configToken, request, validation, executed>>
    /\ UNCHANGED <<pathVars, regexVars, pm2Vars, toolVars, authVars, cmdVars>>
    /\ UNCHANGED serverVars

NextExec ==
    \/ shellExecHandler
    \/ shellExecHandlerNoToken
    \/ pm2_logs
    \/ pm2_start
    \/ flushSettles
    \/ startSettles
    \/ execResolves
    \/ execRejects
    \/ handlerReturns

SpecExec == InitExec /\ [][NextExec]_vars

\* the text of the call that ends up in the command line
CallerText ==
    IF request.handler \in {"pm2_logs", "pm2_start"} THEN request.name ELSE request.command

\* C24: whenever a tool handler (shell_exec, pm2_logs, pm2_start with
\* clear_logs) has handed a command line to the shell, the text the caller
\* supplied for it holds none of | > < && || ; $( backquote ${.
C24_InjectionCheckedBeforeExec ==
    executed # NoExec => ~HasMeta(CallerText)

-----------------------------------------------------------------------------
(* src/src/tools/pm2.ts, connectPm2 and disconnectPm2, step by step: the    *)
(* callback of pm2.connect runs in a later turn of the event loop than the  *)
(* call, and other handlers run in between.  index.ts: gracefulShutdown.    *)

\* a tool handler reaches "await connectPm2()": with pm2Connected the promise
\* is resolved at once, otherwise pm2.connect is invoked
connectPm2Called(h) ==
    /\ connectPc[h] = "idle"
    /\ IF pm2Connected
       THEN /\ connectPc' = [connectPc EXCEPT ![h] = "resolved"]
            /\ UNCHANGED pm2ConnectCalls
       ELSE /\ pm2ConnectCalls < MaxConnectCalls
            /\ pm2ConnectCalls' = pm2ConnectCalls + 1
            /\ connectPc' = [connectPc EXCEPT ![h] = "connecting"]
    /\ UNCHANGED <<configVars, pathVars, shellVars, regexVars, pm2Vars, toolVars, authVars, cmdVars>>
    /\ UNCHANGED <<sseVars, shuttingDown>>

\* pm2.connect calls back: with an error the promise is rejected, without
\* one pm2Connected becomes true and the promise is resolved
pm2ConnectCallback(h) ==
    /\ connectPc[h] = "connecting"
    /\ IF pm2Daemon
       THEN /\ pm2Connected' = TRUE
            /\ connectPc' = [connectPc EXCEPT ![h] = "resolved"]
       ELSE /\ pm2Connected' = pm2Connected
            /\ connectPc' = [connectPc EXCEPT ![h] = "rejected"]
    /\ UNCHANGED <<configVars, pathVars, shellVars, regexVars, toolVars, authVars, cmdVars>>
    /\ UNCHANGED <<pm2Daemon, pm2Process, outLog, errLog>>
    /\ UNCHANGED <<pm2ConnectCalls, sseVars, shuttingDown>>

\* the handler goes on after the await (or into its catch block) and returns
toolHandlerReturns(h) ==
    /\ connectPc[h] \in {"resolved", "rejected"}
    /\ connectPc' = [connectPc EXCEPT ![h] = "idle"]
    /\ UNCHANGED <<configVars, pathVars, shellVars, regexVars, pm2Vars, toolVars, authVars, cmdVars>>
    /\ UNCHANGED <<pm2ConnectCalls, sseVars, shuttingDown>>

\* the PM2 daemon becomes unreachable, or reachable again
daemonChanges ==
    /\ pm2Daemon' = ~pm2Daemon
    /\ UNCHANGED <<configVars, pathVars, shellVars, regexVars, toolVars, authVars, cmdVars>>
    /\ UNCHANGED <<pm2Connected, pm2Process, outLog, errLog>>
    /\ UNCHANGED serverVars

\* SIGINT or SIGTERM: transports.clear(), disconnectPm2() (pm2.disconnect()
\* and pm2Connected = false when it was true), server.close(); the process
\* lives on until the open connections have ended or 5 seconds have passed
gracefulShutdown ==
    /\ transports' = {}
    /\ pm2Connected' = FALSE
    /\ pm2ConnectCalls' = 0
    /\ shuttingDown' = TRUE
    /\ UNCHANGED <<configVars, pathVars, shellVars, regexVars, toolVars, authVars, cmdVars>>
    /\ UNCHANGED <<pm2Daemon, pm2Process, outLog, errLog>>
    /\ UNCHANGED <<connectPc, sseState, postResult>>

InitConn ==
    /\ allowedPaths = <<RootDO>>
    /\ processCwd = RootD
    /\ configToken = <<"t", "k">>
    /\ InitPathIdle
    /\ InitShellIdle
    /\ InitRegexIdle
    /\ pm2Connected = FALSE
    /\ pm2Daemon \in BOOLEAN
    /\ pm2Process = TRUE
    /\ outLog = NoFile
    /\ errLog = NoFile
    /\ toolCall = NoRequest
    /\ toolResponse = NoResult
    /\ toolTrace = NoResult
    /\ InitAuthLoaded
    /\ InitServerIdle

NextConn ==
    \/ \E h \in Handlers : connectPm2Called(h)
    \/ \E h \in Handlers : pm2ConnectCallback(h)
    \/ \E h \in Handlers : toolHandlerReturns(h)
    \/ daemonChanges
    \/ gracefulShutdown

SpecConn == InitConn /\ [][NextConn]_vars

\* C25: the PM2 connection is a singleton: however the running tool handlers
\* interleave, pm2.connect is invoked at most once between the start of the
\* process (or the last disconnectPm2) and the next disconnectPm2.
C25_ConnectOnce ==
    pm2ConnectCalls <= 1

-----------------------------------------------------------------------------
(* index.ts: the SSE sessions.  A session id stands for the sessionId of    *)
(* one SSEServerTransport; a session is open while the response of its      *)
(* GET /sse has not emitted "close".                                        *)

\* GET /sse up to its await: a transport with a new session id is created
\* and stored, the close listener is installed, mcpServer.connect is called
getSse(id) ==
    /\ ~shuttingDown
    /\ sseState[id] = NoSession
    /\ transports' = transports \cup {id}
    /\ sseState' = [sseState EXCEPT ![id] = [stage |-> "connecting", open |-> TRUE]]
    /\ UNCHANGED <<configVars, pathVars, shellVars, regexVars, pm2Vars, toolVars, authVars, cmdVars>>
    /\ UNCHANGED <<connVars, postResult, shuttingDown>>

\* mcpServer.connect(transport) resolves
mcpConnectResolves(id) ==
    /\ sseState[id].stage = "connecting"
    /\ sseState' = [sseState EXCEPT ![id].stage = "connected"]
    /\ UNCHANGED <<configVars, pathVars, shellVars, regexVars, pm2Vars, toolVars, authVars, cmdVars>>
    /\ UNCHANGED <<connVars, transports, postResult, shuttingDown>>

\* mcpServer.connect(transport) rejects: the catch block deletes the session
mcpConnectRejects(id) ==
    /\ sseState[id].stage = "connecting"
    /\ sseState' = [sseState EXCEPT ![id].stage = "failed"]
    /\ transports' = transports \ {id}
    /\ UNCHANGED <<configVars, pathVars, shellVars, regexVars, pm2Vars, toolVars, authVars, cmdVars>>
    /\ UNCHANGED <<connVars, postResult, shuttingDown>>

\* the response of GET /sse emits "close": the listener deletes the session
sseClose(id) ==
    /\ sseState[id].open
    /\ sseState' = [sseState EXCEPT ![id].open = FALSE]
    /\ transports' = transports \ {id}
    /\ UNCHANGED <<configVars, pathVars, shellVars, regexVars, pm2Vars, toolVars, authVars, cmdVars>>
    /\ UNCHANGED <<connVars, postResult, shuttingDown>>

\* what a session id of a request names: the session, or nothing
sessionOf(sid) == IF sid.value \in SessionIds THEN sseState[sid.value] ELSE NoSession

\* POST /message: 400 without sessionId, 404 when the map has no transport
\* for it, otherwise transport.handlePostMessage (which answers itself, or
\* throws and the handler answers 500)
postMessage ==
    /\ \E sid \in {Absent} \cup { Given(n) : n \in 1..(MaxSessions + 1) } :
        IF sid = Absent
        THEN postResult' = [sessionId |-> sid, status |-> 400, dispatched |-> FALSE,
                            session |-> NoSession]
        ELSE IF sid.value \notin transports
        THEN postResult' = [sessionId |-> sid, status |-> 404, dispatched |-> FALSE,
                            session |-> sessionOf(sid)]
        ELSE \E status \in {202, 500} :
                postResult' = [sessionId |-> sid, status |-> status, dispatched |-> TRUE,
                               session |-> sessionOf(sid)]
    /\ UNCHANGED <<configVars, pathVars, shellVars, regexVars, pm2Vars, toolVars, authVars, cmdVars>>
    /\ UNCHANGED <<connVars, transports, sseState, shuttingDown>>

InitSse ==
    /\ allowedPaths = <<RootDO>>
    /\ processCwd = RootD
    /\ configToken = <<"t", "k">>
    /\ InitPathIdle
    /\ InitShellIdle
    /\ InitRegexIdle
    /\ InitPm2Idle
    /\ InitAuthLoaded
    /\ InitServerIdle

NextSse ==
    \/ \E id \in SessionIds : getSse(id)
    \/ \E id \in SessionIds : mcpConnectResolves(id)
    \/ \E id \in SessionIds : mcpConnectRejects(id)
    \/ \E id \in SessionIds : sseClose(id)
    \/ postMessage
    \/ gracefulShutdown

SpecSse == InitSse /\ [][NextSse]_vars

\* the session was created by a GET /sse, its connection has not closed and
\* its MCP connect has not failed
StillOpen(session) == session.open /\ session.stage \in {"connecting", "connected"}

\* the answers of POST /message: dispatched only to a session that is open,
\* 400 without a session id, 404 for an unknown or closed session
PostAnswers ==
    postResult # NoResult =>
        /\ postResult.dispatched =>
               postResult.sessionId # Absent /\ StillOpen(postResult.session)
        /\ postResult.sessionId = Absent => postResult.status = 400
        /\ (postResult.sessionId # Absent /\ ~postResult.session.open) =>
               postResult.status = 404

\* C26: a POST /message is dispatched to a transport only when its sessionId
\* names a session that is still open (created by a GET /sse, not closed, MCP
\* connect not failed); without sessionId the answer is 400, for an unknown
\* or closed session 404; and after any sequence of connects, closes and
\* shutdown the session map holds exactly the sessions that are still open.
C26_SessionMap ==
    /\ PostAnswers
    /\ transports = { id \in SessionIds : StillOpen(sseState[id]) }

====
